---- MODULE Spec2Model ----
(***************************************************************************)
(* CryptoService (libvdrtools/src/services/crypto/mod.rs): the DID/Key     *)
(* factory, sign/verify, authenticated and sealed boxes and the AEAD       *)
(* helpers, over a registry of cipher suites.                              *)
(*                                                                         *)
(* A Rust string is modelled by its UTF-8 bytes (a sequence of 0..255), a  *)
(* byte vector by the same kind of sequence.  Option<T> is a sequence of   *)
(* length at most one, IndyResult<T> a record [ok, kind, val].             *)
(***************************************************************************)
EXTENDS Integers, Sequences, FiniteSets, TLC

VARIABLES
    crypto_types,   \* CryptoService.crypto_types: suite name -> suite implementation
    keys,           \* the (Did, Key) pairs the caller got from create_my_did and stored
    held,           \* the latest signature or ciphertext the caller got
    last,           \* the last completed call: operation, arguments, result
    lock,           \* the RwLock around crypto_types: its readers and whether a writer holds it
    tasks,          \* the operations in progress, one per task: where each one is
    writer          \* where the task that extends the registry is

vars == <<crypto_types, keys, held, last, lock, tasks, writer>>

----------------------------------------------------------------------------
(* Bounds of the model. *)

\* how many (Did, Key) pairs the caller stores
MaxKeys == 2
\* longest message / plaintext drawn from MsgBytes
MaxMsgLen == 1

----------------------------------------------------------------------------
(* Option and IndyResult. *)

None == <<>>
Some(x) == <<x>>

Ok(v) == [ok |-> TRUE, kind |-> "Ok", val |-> v]
Err(kind) == [ok |-> FALSE, kind |-> kind, val |-> <<>>]

\* the ? operator: an error is returned as it is, the value of an Ok goes on
AndThen(result, Then(_)) == IF ~result.ok THEN result ELSE Then(result.val)

----------------------------------------------------------------------------
(* Text: printable ASCII, code 32 + index - 1 (the quote, the backslash   *)
(* and the grave accent are named, not written).                          *)

Ascii ==
   << " ", "!", "QUOTE", "#", "$", "%", "&", "'", "(", ")", "*", "+", ",", "-", ".", "/",
      "0", "1", "2", "3", "4", "5", "6", "7", "8", "9", ":", ";", "<", "=", ">", "?",
      "@", "A", "B", "C", "D", "E", "F", "G", "H", "I", "J", "K", "L", "M", "N", "O",
      "P", "Q", "R", "S", "T", "U", "V", "W", "X", "Y", "Z", "[", "BACKSLASH", "]", "^", "_",
      "GRAVE", "a", "b", "c", "d", "e", "f", "g", "h", "i", "j", "k", "l", "m", "n", "o",
      "p", "q", "r", "s", "t", "u", "v", "w", "x", "y", "z", "{", "|", "}", "~" >>

Ord ==
    CHOOSE code \in {[c \in {table[i] : i \in DOMAIN table} |->
                         31 + (CHOOSE i \in DOMAIN table : table[i] = c)] :
                        table \in {Ascii}} : TRUE

\* the bytes of the string whose characters are chars
S(chars) == [i \in 1..Len(chars) |-> Ord[chars[i]]]

Colon == Ord[":"]
Tilde == Ord["~"]
EqSign == Ord["="]

RECURSIVE IndexOf(_, _, _)
\* str.find(byte): the first position >= i of byte b in s, 0 when there is none
IndexOf(s, b, i) ==
    IF i > Len(s) THEN 0 ELSE IF s[i] = b THEN i ELSE IndexOf(s, b, i + 1)

----------------------------------------------------------------------------
(* Positional number conversion, the core of base58.  The long division    *)
(* works on pairs of digits (radix 256^2 to radix 58^2), which leaves the  *)
(* result unchanged and halves the number of steps.                        *)

RECURSIVE DivMod(_, _, _, _, _)
\* long division of the big-endian digit string num (radix from) by to:
\* <<quotient digits, remainder>>
DivMod(num, i, from, to, acc) ==
    IF i > Len(num) THEN acc
    ELSE LET cur == acc[2] * from + num[i]
         IN  DivMod(num, i + 1, from, to, <<Append(acc[1], cur \div to), cur % to>>)

RECURSIVE StripZeros(_)
StripZeros(s) == IF s # <<>> /\ s[1] = 0 THEN StripZeros(Tail(s)) ELSE s

RECURSIVE LeadingZeros(_)
LeadingZeros(s) == IF s # <<>> /\ s[1] = 0 THEN 1 + LeadingZeros(Tail(s)) ELSE 0

RECURSIVE Convert(_, _, _, _)
\* the number num (radix from, no leading zero) as digits of radix to
Convert(num, from, to, out) ==
    IF num = <<>> THEN out
    ELSE LET qr == DivMod(num, 1, from, to, <<(<<>>), 0>>)
         IN  Convert(StripZeros(qr[1]), from, to, <<qr[2]>> \o out)

\* the same number with two digits of radix r taken as one of radix r * r
Pairs(digits, r) ==
    LET even == IF Len(digits) % 2 = 1 THEN <<0>> \o digits ELSE digits
    IN  [i \in 1..(Len(even) \div 2) |-> even[2 * i - 1] * r + even[2 * i]]

\* the inverse: each digit of radix r * r as two digits of radix r
Unpairs(digits, r) ==
    [i \in 1..(2 * Len(digits)) |->
        IF i % 2 = 1 THEN digits[(i + 1) \div 2] \div r ELSE digits[i \div 2] % r]

\* the digits of radix to of the number whose digits of radix from are num
Radix(num, from, to) ==
    StripZeros(Unpairs(Convert(StripZeros(Pairs(num, from)), from * from, to * to, <<>>), to))

BASE58_ALPHABET ==
    S(<<"1","2","3","4","5","6","7","8","9","A","B","C","D","E","F","G","H",
        "J","K","L","M","N","P","Q","R","S","T","U","V","W","X","Y","Z",
        "a","b","c","d","e","f","g","h","i","j","k","m","n","o","p","q","r",
        "s","t","u","v","w","x","y","z">>)

\* ToBase58: leading zero bytes become '1's, the rest is the number in radix 58
base58_encode(bytes) ==
    LET z == LeadingZeros(bytes)
        d == Radix(bytes, 256, 58)
    IN  [i \in 1..z |-> BASE58_ALPHABET[1]] \o [i \in 1..Len(d) |-> BASE58_ALPHABET[d[i] + 1]]

\* FromBase58: InvalidStructure on a character outside the alphabet
base58_decode(str) ==
    IF \E i \in 1..Len(str) : IndexOf(BASE58_ALPHABET, str[i], 1) = 0
    THEN Err("InvalidStructure")
    ELSE LET dg == [i \in 1..Len(str) |-> IndexOf(BASE58_ALPHABET, str[i], 1) - 1]
             z  == LeadingZeros(dg)
         IN  Ok([i \in 1..z |-> 0] \o Radix(dg, 58, 256))

----------------------------------------------------------------------------
(* Sizes of the default suite's values (libsodium's, named as in the code). *)

\* ed25519_sign::SEEDBYTES
SEEDBYTES == 32
\* ed25519_sign::PublicKey
PUBLICKEYBYTES == 32
\* ed25519_sign::SecretKey: the seed followed by the public key
SECRETKEYBYTES == 64
\* ed25519_sign::Signature
SIGNATUREBYTES == 64
\* ed25519_box::Nonce
BOX_NONCEBYTES == 24
\* the authenticator that leads a crypto_box ciphertext
BOX_MACBYTES == 16
\* chacha20poly1305_ietf::Nonce
AEAD_NONCEBYTES == 12
\* chacha20poly1305_ietf::Tag
AEAD_TAGBYTES == 16
\* chacha20poly1305_ietf::Key
AEAD_KEYBYTES == 32

----------------------------------------------------------------------------
(* The primitives of the default suite, idealised: a digest stands for the *)
(* curve and cipher arithmetic.  Keys, signatures, nonces and tags keep    *)
(* their sizes and layouts; a signature or an authenticator is accepted    *)
(* exactly when it is the one the matching key yields for the same data.   *)

RECURSIVE Absorb(_, _, _)
\* a number that depends on every byte of data[lo..hi] and on its position: eight
\* bytes at a time, longer stretches by halves
Absorb(data, lo, hi) ==
    IF hi - lo < 8
    THEN LET B(k) == IF lo + k <= hi THEN data[lo + k] + 1 ELSE 0
         IN  (B(0) * 3 + B(1) * 1021 + B(2) * 65537 + B(3) * 257 + B(4) * 4099
                  + B(5) * 16411 + B(6) * 131101 + B(7) * 524309 + 7) % 2097143
    ELSE LET mid == (lo + hi) \div 2
         IN  (Absorb(data, lo, mid) * 1021 + Absorb(data, mid + 1, hi) * 3 + (hi - lo))
                 % 2097143

\* 32 bytes that depend on every byte of data and on its length
Digest(data) ==
    LET a == Absorb(data, 1, Len(data))
    IN  [i \in 1..32 |->
            CASE i = 1 -> a % 256
              [] i = 2 -> (a \div 256) % 256
              [] i = 3 -> a \div 65536
              [] OTHER -> (a * i + i) % 256]

Take(s, n) == SubSeq(s, 1, n)
Drop(s, n) == SubSeq(s, n + 1, Len(s))

\* n bytes of key stream
KeyStream(key, nonce, n) ==
    LET d == Digest(key \o nonce) IN [i \in 1..n |-> (d[((i - 1) % 32) + 1] + 3 * i) % 256]

Mask(data, stream) == [i \in 1..Len(data) |-> (data[i] + stream[i]) % 256]
Unmask(data, stream) == [i \in 1..Len(data) |-> (data[i] - stream[i] + 256) % 256]

\* ed25519_sign::create_key_pair_for_signature with a seed: deterministic
sign_keypair(seed) ==
    LET pk == Digest(<<1>> \o seed) IN [vk |-> pk, sk |-> seed \o pk]

\* the public half stored in a secret key
sk_to_pk(sk) == Drop(sk, SEEDBYTES)

\* ed25519_sign::sign: the 64-byte detached signature of doc
sign_detached(sk, doc) ==
    Digest(<<2>> \o sk_to_pk(sk) \o doc) \o Digest(<<3>> \o sk_to_pk(sk) \o doc)

\* ed25519_sign::verify_detached
verify_detached(vk, doc, signature) ==
    signature = Digest(<<2>> \o vk \o doc) \o Digest(<<3>> \o vk \o doc)

\* the key two parties share: the same from (sk_a, vk_b) and from (sk_b, vk_a)
box_shared(sk, vk) ==
    LET mine == sk_to_pk(sk)
    IN  Digest(<<4>> \o [i \in 1..PUBLICKEYBYTES |-> (mine[i] + vk[i]) % 256])

box_mac(shared, nonce, body) == Take(Digest(<<5>> \o shared \o nonce \o body), BOX_MACBYTES)

\* ed25519_box::encrypt: authenticator, then the masked document
box_encrypt(sk, vk, doc, nonce) ==
    LET shared == box_shared(sk, vk)
        body   == Mask(doc, KeyStream(shared, nonce, Len(doc)))
    IN  box_mac(shared, nonce, body) \o body

\* ed25519_box::decrypt: InvalidStructure unless the authenticator matches
box_decrypt(sk, vk, doc, nonce) ==
    IF Len(doc) < BOX_MACBYTES THEN Err("InvalidStructure")
    ELSE LET shared == box_shared(sk, vk)
             body   == Drop(doc, BOX_MACBYTES)
         IN  IF Take(doc, BOX_MACBYTES) # box_mac(shared, nonce, body)
             THEN Err("InvalidStructure")
             ELSE Ok(Unmask(body, KeyStream(shared, nonce, Len(body))))

\* sealedbox: the nonce is derived from the ephemeral and the recipient key
seal_nonce(epk, vk) == Take(Digest(<<6>> \o epk \o vk), BOX_NONCEBYTES)

\* sealedbox::encrypt: ephemeral public key, then the box from the ephemeral key
seal_encrypt(vk, doc, eseed) ==
    LET e == sign_keypair(eseed)
    IN  e.vk \o box_encrypt(e.sk, vk, doc, seal_nonce(e.vk, vk))

\* sealedbox::decrypt
seal_decrypt(vk, sk, doc) ==
    IF Len(doc) < PUBLICKEYBYTES + BOX_MACBYTES THEN Err("InvalidStructure")
    ELSE LET epk == Take(doc, PUBLICKEYBYTES)
         IN  box_decrypt(sk, epk, Drop(doc, PUBLICKEYBYTES), seal_nonce(epk, vk))

aead_tag(key, nonce, aad, ciphertext) ==
    Take(Digest(<<7>> \o key \o nonce \o <<Len(aad)>> \o aad \o ciphertext), AEAD_TAGBYTES)

\* chacha20poly1305_ietf::gen_nonce_and_encrypt_detached with the nonce drawn
encrypt_detached(plaintext, aad, key, nonce) ==
    LET ciphertext == Mask(plaintext, KeyStream(key, nonce, Len(plaintext)))
    IN  [ciphertext |-> ciphertext, iv |-> nonce, tag |-> aead_tag(key, nonce, aad, ciphertext)]

\* chacha20poly1305_ietf::decrypt_detached: an error unless the tag matches
decrypt_detached(ciphertext, key, nonce, tag, aad) ==
    IF tag # aead_tag(key, nonce, aad, ciphertext) THEN Err("InvalidStructure")
    ELSE Ok(Unmask(ciphertext, KeyStream(key, nonce, Len(ciphertext))))

----------------------------------------------------------------------------
(* Text codecs: base64 (standard and URL-safe), hex, UTF-8. *)

BASE64_STANDARD ==
    S(<<"A","B","C","D","E","F","G","H","I","J","K","L","M","N","O","P","Q","R","S","T",
        "U","V","W","X","Y","Z","a","b","c","d","e","f","g","h","i","j","k","l","m","n",
        "o","p","q","r","s","t","u","v","w","x","y","z","0","1","2","3","4","5","6","7",
        "8","9","+","/">>)

BASE64_URL_SAFE == Take(BASE64_STANDARD, 62) \o S(<<"-","_">>)

RECURSIVE base64_encode_with(_, _)
\* three bytes make four characters; the last group is padded with '='
base64_encode_with(alphabet, bytes) ==
    LET n  == Len(bytes)
        b1 == bytes[1]
        b2 == bytes[2]
        b3 == bytes[3]
    IN  CASE n = 0 -> <<>>
          [] n = 1 -> <<alphabet[b1 \div 4 + 1], alphabet[(b1 % 4) * 16 + 1], EqSign, EqSign>>
          [] n = 2 -> <<alphabet[b1 \div 4 + 1], alphabet[(b1 % 4) * 16 + b2 \div 16 + 1],
                        alphabet[(b2 % 16) * 4 + 1], EqSign>>
          [] OTHER -> <<alphabet[b1 \div 4 + 1], alphabet[(b1 % 4) * 16 + b2 \div 16 + 1],
                        alphabet[(b2 % 16) * 4 + b3 \div 64 + 1], alphabet[(b3 % 64) + 1]>>
                      \o base64_encode_with(alphabet, Drop(bytes, 3))

RECURSIVE base64_decode_with(_, _, _)
\* the inverse of base64_encode_with: an error on a length that is no multiple of
\* four, a foreign character, misplaced padding or non-zero spare bits
base64_decode_with(alphabet, str, out) ==
    IF str = <<>> THEN Ok(out)
    ELSE IF Len(str) < 4 THEN Err("InvalidStructure")
    ELSE LET i1 == IndexOf(alphabet, str[1], 1) - 1
             i2 == IndexOf(alphabet, str[2], 1) - 1
             i3 == IndexOf(alphabet, str[3], 1) - 1
             i4 == IndexOf(alphabet, str[4], 1) - 1
             final == Len(str) = 4
         IN  IF i1 < 0 \/ i2 < 0 THEN Err("InvalidStructure")
             ELSE IF final /\ str[3] = EqSign /\ str[4] = EqSign
             THEN IF i2 % 16 # 0 THEN Err("InvalidStructure")
                  ELSE Ok(out \o <<i1 * 4 + i2 \div 16>>)
             ELSE IF i3 < 0 THEN Err("InvalidStructure")
             ELSE IF final /\ str[4] = EqSign
             THEN IF i3 % 4 # 0 THEN Err("InvalidStructure")
                  ELSE Ok(out \o <<i1 * 4 + i2 \div 16, (i2 % 16) * 16 + i3 \div 4>>)
             ELSE IF i4 < 0 THEN Err("InvalidStructure")
             ELSE base64_decode_with(alphabet, Drop(str, 4),
                      out \o <<i1 * 4 + i2 \div 16, (i2 % 16) * 16 + i3 \div 4, (i3 % 4) * 64 + i4>>)

\* indy_utils::crypto::base64
base64_decode(str) == base64_decode_with(BASE64_STANDARD, str, <<>>)
base64_encode_urlsafe(bytes) == base64_encode_with(BASE64_URL_SAFE, bytes)
base64_decode_urlsafe(str) == base64_decode_with(BASE64_URL_SAFE, str, <<>>)

HEX_LOWER == S(<<"0","1","2","3","4","5","6","7","8","9","a","b","c","d","e","f">>)
HEX_UPPER == S(<<"0","1","2","3","4","5","6","7","8","9","A","B","C","D","E","F">>)

\* the value of a hex digit, -1 for any other character
hex_value(c) ==
    IF IndexOf(HEX_LOWER, c, 1) > 0 THEN IndexOf(HEX_LOWER, c, 1) - 1
    ELSE IndexOf(HEX_UPPER, c, 1) - 1

\* hex::FromHex for Vec<u8>
from_hex(str) ==
    IF Len(str) % 2 # 0 \/ \E i \in 1..Len(str) : hex_value(str[i]) < 0
    THEN Err("InvalidStructure")
    ELSE Ok([i \in 1..(Len(str) \div 2) |-> hex_value(str[2 * i - 1]) * 16 + hex_value(str[2 * i])])

IsCont(bytes, i) == i <= Len(bytes) /\ bytes[i] \in 128..191

RECURSIVE is_utf8(_, _)
\* str::from_utf8: well-formed UTF-8 from position i on
is_utf8(bytes, i) ==
    IF i > Len(bytes) THEN TRUE
    ELSE LET c == bytes[i]
             second(lo, hi) == i + 1 <= Len(bytes) /\ bytes[i + 1] \in lo..hi
         IN  CASE c < 128 -> is_utf8(bytes, i + 1)
               [] c \in 194..223 -> IsCont(bytes, i + 1) /\ is_utf8(bytes, i + 2)
               [] c = 224 -> second(160, 191) /\ IsCont(bytes, i + 2) /\ is_utf8(bytes, i + 3)
               [] c \in (225..236) \cup (238..239) ->
                      IsCont(bytes, i + 1) /\ IsCont(bytes, i + 2) /\ is_utf8(bytes, i + 3)
               [] c = 237 -> second(128, 159) /\ IsCont(bytes, i + 2) /\ is_utf8(bytes, i + 3)
               [] c = 240 -> second(144, 191) /\ IsCont(bytes, i + 2) /\ IsCont(bytes, i + 3)
                             /\ is_utf8(bytes, i + 4)
               [] c \in 241..243 -> IsCont(bytes, i + 1) /\ IsCont(bytes, i + 2)
                                    /\ IsCont(bytes, i + 3) /\ is_utf8(bytes, i + 4)
               [] c = 244 -> second(128, 143) /\ IsCont(bytes, i + 2) /\ IsCont(bytes, i + 3)
                             /\ is_utf8(bytes, i + 4)
               [] OTHER -> FALSE

\* String::from_utf8
from_utf8(bytes) == IF is_utf8(bytes, 1) THEN Ok(bytes) ELSE Err("InvalidStructure")

----------------------------------------------------------------------------
(* The inputs of the model: seeds, entropy, keys, messages. *)

\* n bytes, a different string for each b
Fill(n, b) == [i \in 1..n |-> (b + 7 * i) % 256]

\* what the CSPRNG may hand to key generation
RandomSeeds == {Fill(SEEDBYTES, 17), Fill(SEEDBYTES, 201)}
\* ... to the ephemeral key of a sealed box
EphemeralSeeds == {Fill(SEEDBYTES, 5), Fill(SEEDBYTES, 90)}
\* ... to gen_nonce of the suite
BoxNonces == {Fill(BOX_NONCEBYTES, 33), Fill(BOX_NONCEBYTES, 150)}
\* ... to the nonce of encrypt_plaintext
AeadNonces == {Fill(AEAD_NONCEBYTES, 61), Fill(AEAD_NONCEBYTES, 222)}
\* content-encryption keys (gen_key)
AeadKeys == {Fill(AEAD_KEYBYTES, 9), Fill(AEAD_KEYBYTES, 130)}

\* "aaaaaaaaaaaaaaaaaaaaaaaaaaaaaaaa"
SEED_A == [i \in 1..32 |-> Ord["a"]]
\* "000000000000000000000000Trustee1"
SEED_TRUSTEE == [i \in 1..24 |-> Ord["0"]] \o S(<<"T","r","u","s","t","e","e","1">>)

\* 'h', and a byte that alone is not UTF-8
MsgBytes == {104, 195}

RECURSIVE SeqsUpTo(_, _)
\* every sequence over alphabet of length at most n
SeqsUpTo(alphabet, n) ==
    IF n = 0 THEN {<<>>}
    ELSE LET shorter == SeqsUpTo(alphabet, n - 1)
         IN  shorter \cup {Append(m, b) : m \in shorter, b \in alphabet}

\* the short messages, and U+00E9 in UTF-8
Msgs == SeqsUpTo(MsgBytes, MaxMsgLen) \cup {<<195, 169>>}

DEFAULT_CRYPTO_TYPE == S(<<"e","d","2","5","5","1","9">>)
\* a suite name that is not registered
UNKNOWN_CRYPTO_TYPE == S(<<"t","y","p","e">>)

DID_8wZc == S(<<"8","w","Z","c","E","r","i","a","N","L","N","K","t","t","e","J","v","x","7","f","8","i">>)
VERKEY_Annx ==
    S(<<"A","n","n","x","V","4","t","3","L","U","H","K","Z","a","x","V","Q","D","W","o","V","a",
        "G","4","4","N","r","G","m","e","D","Y","M","A","4","G","z","6","C","2","t","C","Z","d">>)
\* the DID and the verkey of the seed "00000000000000000000000000000My1"
DID_NcYx == S(<<"N","c","Y","x","i","D","X","k","p","Y","i","6","o","v","5","F","c","Y","D","i","1","e">>)
VERKEY_5L2H ==
    S(<<"5","L","2","H","B","n","z","b","u","6","A","u","h","2","p","k","D","R","b","F","t","5",
        "f","4","p","r","v","g","E","2","L","z","k","n","k","u","Y","L","s","K","k","a","c","p">>)
\* a DID of 32 bytes (cid = true)
DID_CnED ==
    S(<<"C","n","E","D","k","9","H","r","M","n","m","i","H","X","E","V","1","W","F","g","b","V",
        "C","R","t","e","Y","n","P","q","s","J","w","r","T","d","c","Z","a","N","h","F","V","W">>)
\* not base58: '_' and 'l' are outside the alphabet
INVALID_BASE58 ==
    S(<<"i","n","v","a","l","i","d","_","b","a","s","e","5","8","_","d","i","d">>)

----------------------------------------------------------------------------
(* base58 as the service uses it.  The conversions of the key material the *)
(* model's seeds yield are evaluated once and looked up afterwards.        *)

KnownKeyBytes ==
    UNION {{sign_keypair(sd).vk, sign_keypair(sd).sk, Take(sign_keypair(sd).vk, 16)} :
              sd \in RandomSeeds \cup {SEED_A, SEED_TRUSTEE}}
    \cup {base58_decode(did).val \o base58_decode(tail).val :
              did \in {DID_8wZc, DID_NcYx}, tail \in {DID_8wZc, DID_NcYx}}

Base58Encoded == [bytes \in KnownKeyBytes |-> base58_encode(bytes)]

\* ToBase58::to_base58
to_base58(bytes) ==
    CHOOSE result \in {IF bytes \in DOMAIN table THEN table[bytes] ELSE base58_encode(bytes) :
                        table \in {Base58Encoded}} : TRUE

KnownStrings ==
    {Base58Encoded[bytes] : bytes \in KnownKeyBytes} \cup {DID_8wZc, VERKEY_Annx, INVALID_BASE58, DID_NcYx, VERKEY_5L2H, DID_CnED}

Base58Decoded == [str \in KnownStrings |-> base58_decode(str)]

\* FromBase58::from_base58
from_base58(str) ==
    CHOOSE result \in {IF str \in DOMAIN table THEN table[str] ELSE base58_decode(str) :
                        table \in {Base58Decoded}} : TRUE

\* T::from_slice of the fixed-size types: InvalidStructure on another length
from_slice(bytes, size) == IF Len(bytes) = size THEN Ok(bytes) ELSE Err("InvalidStructure")

----------------------------------------------------------------------------
(* Verkey codec and DID values. *)

\* split_verkey: (the key without its suite suffix, the suite's name)
split_verkey(verkey) ==
    LET p == IndexOf(verkey, Colon, 1)
    IN  IF p = 0 THEN <<verkey, DEFAULT_CRYPTO_TYPE>>
        ELSE <<Take(verkey, p - 1), IF p < Len(verkey) THEN Drop(verkey, p) ELSE DEFAULT_CRYPTO_TYPE>>

\* verkey_get_cryptoname: the suite tag after ':', the default suite without one
verkey_get_cryptoname(verkey) == split_verkey(verkey)[2]

\* DidValue::new: the body must be base58; with a method the DID is qualified
DidValue_new(did, ledger_type, method) ==
    IF ~from_base58(did).ok THEN Err("InvalidStructure")
    ELSE IF method = None THEN Ok(did)
    ELSE Ok(S(<<"d","i","d",":">>) \o method[1] \o <<Colon>> \o did)

\* DidValue::to_unqualified: the body of did:<method>:<body>, the DID itself when
\* it is not qualified
to_unqualified(did) ==
    LET p == IndexOf(did, Colon, 5)
    IN  IF Len(did) >= 4 /\ Take(did, 4) = S(<<"d","i","d">>) \o <<Colon>> /\ p > 0
        THEN Drop(did, p)
        ELSE did

\* build_full_verkey: the DID body without a verkey; for "~tail" base58 of the
\* decoded body followed by the decoded tail, 32 bytes in all, with the ':suite'
\* suffix put back; any other verkey as it is
build_full_verkey(dest, verkey) ==
    IF verkey = None THEN Ok(dest)
    ELSE LET p      == IndexOf(verkey[1], Colon, 1)
             body   == IF p = 0 THEN verkey[1] ELSE Take(verkey[1], p - 1)
             suffix == IF p = 0 THEN <<>> ELSE Drop(verkey[1], p - 1)
         IN  IF body # <<>> /\ body[1] = Tilde
             THEN AndThen(from_base58(dest), LAMBDA head :
                  AndThen(from_base58(Drop(body, 1)), LAMBDA tail :
                  IF Len(head) + Len(tail) # PUBLICKEYBYTES
                  THEN Err("InvalidStructure")
                  ELSE Ok(to_base58(head \o tail) \o suffix)))
             ELSE Ok(verkey[1])

----------------------------------------------------------------------------
(* The suite registered under "ed25519" (ED25519CryptoType): the trait     *)
(* methods, each an IndyResult.                                            *)

\* create_key: deterministic from the seed, from the CSPRNG's draw rnd without one
CryptoType_create_key(seed, rnd) == Ok(sign_keypair(IF seed = None THEN rnd ELSE seed[1]))
CryptoType_sign(sk, doc) == Ok(sign_detached(sk, doc))
CryptoType_verify(vk, doc, signature) == Ok(verify_detached(vk, doc, signature))
CryptoType_crypto_box(sk, vk, doc, nonce) == Ok(box_encrypt(sk, vk, doc, nonce))
CryptoType_crypto_box_open(sk, vk, doc, nonce) == box_decrypt(sk, vk, doc, nonce)
CryptoType_crypto_box_seal(vk, doc, eseed) == Ok(seal_encrypt(vk, doc, eseed))
CryptoType_crypto_box_seal_open(vk, sk, doc) == seal_decrypt(vk, sk, doc)
\* validate_key: a structural check of the public key; every 32-byte key passes
CryptoType_validate_key(vk) == Ok(<<>>)

----------------------------------------------------------------------------
(* CryptoService.  Every operation takes the registry's read lock, which   *)
(* no operation of the service ever holds for writing, looks its suite up  *)
(* and releases the lock when it returns.  The values the code draws from  *)
(* the CSPRNG are parameters (rnd, nonce, eseed).                          *)

\* new(): the registry maps the default suite's name to its implementation
CryptoService_new == (DEFAULT_CRYPTO_TYPE :> "ED25519CryptoType")

\* convert_seed that zero-pads a seed string shorter than a seed
convert_seed_padding_short(seed) ==
    IF seed = None THEN Ok(None)
    ELSE LET str   == seed[1]
             bytes == IF Len(str) <= SEEDBYTES
                      THEN Ok(str \o [i \in 1..(SEEDBYTES - Len(str)) |-> 0])
                      ELSE IF str # <<>> /\ str[Len(str)] = EqSign
                      THEN LET decoded == base64_decode(str)
                           IN  IF ~decoded.ok THEN Err("InvalidStructure")
                               ELSE IF Len(decoded.val) = SEEDBYTES THEN decoded
                               ELSE Err("InvalidStructure")
                      ELSE IF Len(str) = SEEDBYTES * 2 THEN from_hex(str)
                      ELSE Err("InvalidStructure")
         IN  IF ~bytes.ok THEN bytes
             ELSE LET sd == from_slice(bytes.val, SEEDBYTES)
                  IN  IF ~sd.ok THEN sd ELSE Ok(Some(sd.val))

\* convert_seed that looks for the '=' of base64 before it looks at the length
convert_seed_base64_first(seed) ==
    IF seed = None THEN Ok(None)
    ELSE LET str   == seed[1]
             bytes == IF str # <<>> /\ str[Len(str)] = EqSign
                      THEN LET decoded == base64_decode(str)
                           IN  IF ~decoded.ok THEN Err("InvalidStructure")
                               ELSE IF Len(decoded.val) = SEEDBYTES THEN decoded
                               ELSE Err("InvalidStructure")
                      ELSE IF Len(str) = SEEDBYTES THEN Ok(str)
                      ELSE IF Len(str) = SEEDBYTES * 2 THEN from_hex(str)
                      ELSE Err("InvalidStructure")
         IN  IF ~bytes.ok THEN bytes
             ELSE LET sd == from_slice(bytes.val, SEEDBYTES)
                  IN  IF ~sd.ok THEN sd ELSE Ok(Some(sd.val))

convert_seed(seed) ==
    IF seed = None THEN Ok(None)
    ELSE LET str   == seed[1]
             bytes == IF Len(str) = SEEDBYTES THEN Ok(str)
                      ELSE IF str # <<>> /\ str[Len(str)] = EqSign
                      THEN LET decoded == base64_decode(str)
                           IN  IF ~decoded.ok THEN Err("InvalidStructure")
                               ELSE IF Len(decoded.val) = SEEDBYTES THEN decoded
                               ELSE Err("InvalidStructure")
                      ELSE IF Len(str) = SEEDBYTES * 2 THEN from_hex(str)
                      ELSE Err("InvalidStructure")
         IN  IF ~bytes.ok THEN bytes
             ELSE LET sd == from_slice(bytes.val, SEEDBYTES)
                  IN  IF ~sd.ok THEN sd ELSE Ok(Some(sd.val))

\* create_key that never hands the seed to the suite
create_key_ignoring_seed(key_info, rnd) ==
    LET crypto_type_name ==
            IF key_info.crypto_type = None THEN DEFAULT_CRYPTO_TYPE ELSE key_info.crypto_type[1]
    IN  IF crypto_type_name \notin DOMAIN crypto_types THEN Err("UnknownCrypto")
        ELSE AndThen(convert_seed(key_info.seed), LAMBDA seed :
             AndThen(CryptoType_create_key(None, rnd), LAMBDA kp :
             LET vk == to_base58(kp.vk)
                 sk == to_base58(kp.sk)
             IN  Ok([verkey  |-> IF crypto_type_name # DEFAULT_CRYPTO_TYPE
                                 THEN vk \o <<Colon>> \o crypto_type_name
                                 ELSE vk,
                     signkey |-> sk])))

\* create_key that tags the verkey with the suite whichever it is
create_key_always_tagged(key_info, rnd) ==
    LET crypto_type_name ==
            IF key_info.crypto_type = None THEN DEFAULT_CRYPTO_TYPE ELSE key_info.crypto_type[1]
    IN  IF crypto_type_name \notin DOMAIN crypto_types THEN Err("UnknownCrypto")
        ELSE AndThen(convert_seed(key_info.seed), LAMBDA seed :
             AndThen(CryptoType_create_key(seed, rnd), LAMBDA kp :
             LET vk == to_base58(kp.vk)
                 sk == to_base58(kp.sk)
             IN  Ok([verkey  |-> vk \o <<Colon>> \o crypto_type_name,
                     signkey |-> sk])))

create_key(key_info, rnd) ==
    LET crypto_type_name ==
            IF key_info.crypto_type = None THEN DEFAULT_CRYPTO_TYPE ELSE key_info.crypto_type[1]
    IN  IF crypto_type_name \notin DOMAIN crypto_types THEN Err("UnknownCrypto")
        ELSE AndThen(convert_seed(key_info.seed), LAMBDA seed :
             AndThen(CryptoType_create_key(seed, rnd), LAMBDA kp :
             LET vk == to_base58(kp.vk)
                 sk == to_base58(kp.sk)
             IN  Ok([verkey  |-> IF crypto_type_name # DEFAULT_CRYPTO_TYPE
                                 THEN vk \o <<Colon>> \o crypto_type_name
                                 ELSE vk,
                     signkey |-> sk])))

\* create_my_did that takes any cid that is present for true
create_my_did_any_cid(my_did_info, rnd) ==
    LET crypto_type_name ==
            IF my_did_info.crypto_type = None THEN DEFAULT_CRYPTO_TYPE
            ELSE my_did_info.crypto_type[1]
    IN  IF crypto_type_name \notin DOMAIN crypto_types THEN Err("UnknownCrypto")
        ELSE AndThen(convert_seed(my_did_info.seed), LAMBDA seed :
             AndThen(CryptoType_create_key(seed, rnd), LAMBDA kp :
             AndThen(IF my_did_info.did # None THEN Ok(my_did_info.did[1])
                     ELSE IF my_did_info.cid # None THEN DidValue_new(to_base58(kp.vk),
                              my_did_info.ledger_type, my_did_info.method_name)
                     ELSE DidValue_new(to_base58(Take(kp.vk, 16)),
                              my_did_info.ledger_type, my_did_info.method_name),
                     LAMBDA did :
             LET vk     == to_base58(kp.vk)
                 sk     == to_base58(kp.sk)
                 tagged == IF crypto_type_name # DEFAULT_CRYPTO_TYPE
                           THEN vk \o <<Colon>> \o crypto_type_name
                           ELSE vk
             IN  Ok([did |-> [did |-> did, verkey |-> tagged],
                     key |-> [verkey |-> tagged, signkey |-> sk]]))))

\* create_my_did that looks at cid before the did it was given
create_my_did_cid_first(my_did_info, rnd) ==
    LET crypto_type_name ==
            IF my_did_info.crypto_type = None THEN DEFAULT_CRYPTO_TYPE
            ELSE my_did_info.crypto_type[1]
    IN  IF crypto_type_name \notin DOMAIN crypto_types THEN Err("UnknownCrypto")
        ELSE AndThen(convert_seed(my_did_info.seed), LAMBDA seed :
             AndThen(CryptoType_create_key(seed, rnd), LAMBDA kp :
             AndThen(IF my_did_info.cid = Some(TRUE) THEN DidValue_new(to_base58(kp.vk),
                              my_did_info.ledger_type, my_did_info.method_name)
                     ELSE IF my_did_info.did # None THEN Ok(my_did_info.did[1])
                     ELSE DidValue_new(to_base58(Take(kp.vk, 16)),
                              my_did_info.ledger_type, my_did_info.method_name),
                     LAMBDA did :
             LET vk     == to_base58(kp.vk)
                 sk     == to_base58(kp.sk)
                 tagged == IF crypto_type_name # DEFAULT_CRYPTO_TYPE
                           THEN vk \o <<Colon>> \o crypto_type_name
                           ELSE vk
             IN  Ok([did |-> [did |-> did, verkey |-> tagged],
                     key |-> [verkey |-> tagged, signkey |-> sk]]))))

\* create_my_did that normalizes the seed before it resolves the suite
create_my_did_seed_first(my_did_info, rnd) ==
    LET crypto_type_name ==
            IF my_did_info.crypto_type = None THEN DEFAULT_CRYPTO_TYPE
            ELSE my_did_info.crypto_type[1]
    IN  AndThen(convert_seed(my_did_info.seed), LAMBDA seed :
        IF crypto_type_name \notin DOMAIN crypto_types THEN Err("UnknownCrypto")
        ELSE AndThen(CryptoType_create_key(seed, rnd), LAMBDA kp :
             AndThen(IF my_did_info.did # None THEN Ok(my_did_info.did[1])
                     ELSE IF my_did_info.cid = Some(TRUE) THEN DidValue_new(to_base58(kp.vk),
                              my_did_info.ledger_type, my_did_info.method_name)
                     ELSE DidValue_new(to_base58(Take(kp.vk, 16)),
                              my_did_info.ledger_type, my_did_info.method_name),
                     LAMBDA did :
             LET vk     == to_base58(kp.vk)
                 sk     == to_base58(kp.sk)
                 tagged == IF crypto_type_name # DEFAULT_CRYPTO_TYPE
                           THEN vk \o <<Colon>> \o crypto_type_name
                           ELSE vk
             IN  Ok([did |-> [did |-> did, verkey |-> tagged],
                     key |-> [verkey |-> tagged, signkey |-> sk]]))))

create_my_did(my_did_info, rnd) ==
    LET crypto_type_name ==
            IF my_did_info.crypto_type = None THEN DEFAULT_CRYPTO_TYPE
            ELSE my_did_info.crypto_type[1]
    IN  IF crypto_type_name \notin DOMAIN crypto_types THEN Err("UnknownCrypto")
        ELSE AndThen(convert_seed(my_did_info.seed), LAMBDA seed :
             AndThen(CryptoType_create_key(seed, rnd), LAMBDA kp :
             AndThen(IF my_did_info.did # None THEN Ok(my_did_info.did[1])
                     ELSE IF my_did_info.cid = Some(TRUE) THEN DidValue_new(to_base58(kp.vk),
                              my_did_info.ledger_type, my_did_info.method_name)
                     ELSE DidValue_new(to_base58(Take(kp.vk, 16)),
                              my_did_info.ledger_type, my_did_info.method_name),
                     LAMBDA did :
             LET vk     == to_base58(kp.vk)
                 sk     == to_base58(kp.sk)
                 tagged == IF crypto_type_name # DEFAULT_CRYPTO_TYPE
                           THEN vk \o <<Colon>> \o crypto_type_name
                           ELSE vk
             IN  Ok([did |-> [did |-> did, verkey |-> tagged],
                     key |-> [verkey |-> tagged, signkey |-> sk]]))))

\* validate_did: nothing is checked
validate_did(did) == Ok(<<>>)

\* validate_key that decodes the key before it looks the suite up
validate_key_decoding_first(vk) ==
    LET body             == split_verkey(vk)[1]
        crypto_type_name == split_verkey(vk)[2]
    IN  AndThen(from_base58(IF body # <<>> /\ body[1] = Tilde THEN Drop(body, 1) ELSE body),
                LAMBDA decoded :
        IF crypto_type_name \notin DOMAIN crypto_types THEN Err("UnknownCrypto")
        ELSE IF body # <<>> /\ body[1] = Tilde THEN Ok(<<>>)
        ELSE AndThen(from_slice(decoded, PUBLICKEYBYTES), LAMBDA pk :
             CryptoType_validate_key(pk)))

validate_key(vk) ==
    LET body             == split_verkey(vk)[1]
        crypto_type_name == split_verkey(vk)[2]
    IN  IF crypto_type_name \notin DOMAIN crypto_types THEN Err("UnknownCrypto")
        ELSE IF body # <<>> /\ body[1] = Tilde
        THEN AndThen(from_base58(Drop(body, 1)), LAMBDA tail : Ok(<<>>))
        ELSE AndThen(from_base58(body), LAMBDA decoded :
             AndThen(from_slice(decoded, PUBLICKEYBYTES), LAMBDA pk :
             CryptoType_validate_key(pk)))

\* create_their_did that returns the DID without its did:<method>: prefix
create_their_did_unqualifying_did(their_did_info) ==
    AndThen(validate_did(their_did_info.did), LAMBDA valid :
    AndThen(build_full_verkey(to_unqualified(their_did_info.did), their_did_info.verkey),
            LAMBDA verkey :
    AndThen(validate_key(verkey), LAMBDA checked :
    Ok([did |-> to_unqualified(their_did_info.did), verkey |-> verkey]))))

\* create_their_did that expands the verkey with the DID as given, qualified or not
create_their_did_with_qualified_did(their_did_info) ==
    AndThen(validate_did(their_did_info.did), LAMBDA valid :
    AndThen(build_full_verkey(their_did_info.did, their_did_info.verkey),
            LAMBDA verkey :
    AndThen(validate_key(verkey), LAMBDA checked :
    Ok([did |-> their_did_info.did, verkey |-> verkey]))))

\* create_their_did that never calls validate_key
create_their_did_without_validate_key(their_did_info) ==
    AndThen(validate_did(their_did_info.did), LAMBDA valid :
    AndThen(build_full_verkey(to_unqualified(their_did_info.did), their_did_info.verkey),
            LAMBDA verkey :
    Ok([did |-> their_did_info.did, verkey |-> verkey])))

create_their_did(their_did_info) ==
    AndThen(validate_did(their_did_info.did), LAMBDA valid :
    AndThen(build_full_verkey(to_unqualified(their_did_info.did), their_did_info.verkey),
            LAMBDA verkey :
    AndThen(validate_key(verkey), LAMBDA checked :
    Ok([did |-> their_did_info.did, verkey |-> verkey]))))

\* sign with the key's two texts confused: the verkey is decoded as the signing key
sign_decoding_verkey(my_key, doc) ==
    LET crypto_type_name == verkey_get_cryptoname(my_key.verkey)
    IN  IF crypto_type_name \notin DOMAIN crypto_types THEN Err("UnknownCrypto")
        ELSE AndThen(from_base58(my_key.verkey), LAMBDA decoded :
             AndThen(from_slice(decoded, SECRETKEYBYTES), LAMBDA my_sk :
             CryptoType_sign(my_sk, doc)))

\* sign that takes a 32-byte signkey for a seed and signs with the key pair of it
sign_expanding_seed(my_key, doc) ==
    LET crypto_type_name == verkey_get_cryptoname(my_key.verkey)
    IN  IF crypto_type_name \notin DOMAIN crypto_types THEN Err("UnknownCrypto")
        ELSE AndThen(from_base58(my_key.signkey), LAMBDA decoded :
             IF Len(decoded) = SEEDBYTES
             THEN CryptoType_sign(sign_keypair(decoded).sk, doc)
             ELSE AndThen(from_slice(decoded, SECRETKEYBYTES), LAMBDA my_sk :
                  CryptoType_sign(my_sk, doc)))

sign(my_key, doc) ==
    LET crypto_type_name == verkey_get_cryptoname(my_key.verkey)
    IN  IF crypto_type_name \notin DOMAIN crypto_types THEN Err("UnknownCrypto")
        ELSE AndThen(from_base58(my_key.signkey), LAMBDA decoded :
             AndThen(from_slice(decoded, SECRETKEYBYTES), LAMBDA my_sk :
             CryptoType_sign(my_sk, doc)))

\* verify that reports a signature that does not match as an error
verify_failing_on_mismatch(their_vk, msg, signature) ==
    LET split == split_verkey(their_vk)
    IN  IF split[2] \notin DOMAIN crypto_types THEN Err("UnknownCrypto")
        ELSE AndThen(from_base58(split[1]), LAMBDA decoded :
             AndThen(from_slice(decoded, PUBLICKEYBYTES), LAMBDA vk :
             AndThen(from_slice(signature, SIGNATUREBYTES), LAMBDA sig :
             IF CryptoType_verify(vk, msg, sig) = Ok(TRUE)
             THEN Ok(TRUE)
             ELSE Err("InvalidStructure"))))

\* verify that copies the signature into a 64-byte buffer whatever its length
verify_resizing_signature(their_vk, msg, signature) ==
    LET split == split_verkey(their_vk)
    IN  IF split[2] \notin DOMAIN crypto_types THEN Err("UnknownCrypto")
        ELSE AndThen(from_base58(split[1]), LAMBDA decoded :
             AndThen(from_slice(decoded, PUBLICKEYBYTES), LAMBDA vk :
             LET sig == Take(signature \o [i \in 1..SIGNATUREBYTES |-> 0], SIGNATUREBYTES)
             IN  CryptoType_verify(vk, msg, sig)))

verify(their_vk, msg, signature) ==
    LET split == split_verkey(their_vk)
    IN  IF split[2] \notin DOMAIN crypto_types THEN Err("UnknownCrypto")
        ELSE AndThen(from_base58(split[1]), LAMBDA decoded :
             AndThen(from_slice(decoded, PUBLICKEYBYTES), LAMBDA vk :
             AndThen(from_slice(signature, SIGNATUREBYTES), LAMBDA sig :
             CryptoType_verify(vk, msg, sig))))


\* the result is the pair (encrypted_doc, nonce)
\* crypto_box that goes by the suite of my_key alone
crypto_box_with_my_suite(my_key, their_vk, doc, nonce) ==
    LET crypto_type_name == verkey_get_cryptoname(my_key.verkey)
        split == split_verkey(their_vk)
    IN  IF crypto_type_name \notin DOMAIN crypto_types THEN Err("UnknownCrypto")
        ELSE AndThen(from_base58(my_key.signkey), LAMBDA sk_bytes :
             AndThen(from_slice(sk_bytes, SECRETKEYBYTES), LAMBDA my_sk :
             AndThen(from_base58(split[1]), LAMBDA vk_bytes :
             AndThen(from_slice(vk_bytes, PUBLICKEYBYTES), LAMBDA vk :
             AndThen(CryptoType_crypto_box(my_sk, vk, doc, nonce), LAMBDA encrypted_doc :
             Ok(<<encrypted_doc, nonce>>))))))

crypto_box(my_key, their_vk, doc, nonce) ==
    LET crypto_type_name == verkey_get_cryptoname(my_key.verkey)
        split == split_verkey(their_vk)
    IN  IF crypto_type_name # split[2] THEN Err("UnknownCrypto")
        ELSE IF crypto_type_name \notin DOMAIN crypto_types THEN Err("UnknownCrypto")
        ELSE AndThen(from_base58(my_key.signkey), LAMBDA sk_bytes :
             AndThen(from_slice(sk_bytes, SECRETKEYBYTES), LAMBDA my_sk :
             AndThen(from_base58(split[1]), LAMBDA vk_bytes :
             AndThen(from_slice(vk_bytes, PUBLICKEYBYTES), LAMBDA vk :
             AndThen(CryptoType_crypto_box(my_sk, vk, doc, nonce), LAMBDA encrypted_doc :
             Ok(<<encrypted_doc, nonce>>))))))

\* crypto_box_open that decodes the opener's own verkey as the sender's
crypto_box_open_with_own_verkey(my_key, their_vk, doc, nonce) ==
    LET crypto_type_name == verkey_get_cryptoname(my_key.verkey)
        split == split_verkey(their_vk)
    IN  IF crypto_type_name # split[2] THEN Err("UnknownCrypto")
        ELSE IF crypto_type_name \notin DOMAIN crypto_types THEN Err("UnknownCrypto")
        ELSE AndThen(from_base58(my_key.signkey), LAMBDA sk_bytes :
             AndThen(from_slice(sk_bytes, SECRETKEYBYTES), LAMBDA my_sk :
             AndThen(from_base58(split_verkey(my_key.verkey)[1]), LAMBDA vk_bytes :
             AndThen(from_slice(vk_bytes, PUBLICKEYBYTES), LAMBDA vk :
             AndThen(from_slice(nonce, BOX_NONCEBYTES), LAMBDA n :
             CryptoType_crypto_box_open(my_sk, vk, doc, n))))))

crypto_box_open(my_key, their_vk, doc, nonce) ==
    LET crypto_type_name == verkey_get_cryptoname(my_key.verkey)
        split == split_verkey(their_vk)
    IN  IF crypto_type_name # split[2] THEN Err("UnknownCrypto")
        ELSE IF crypto_type_name \notin DOMAIN crypto_types THEN Err("UnknownCrypto")
        ELSE AndThen(from_base58(my_key.signkey), LAMBDA sk_bytes :
             AndThen(from_slice(sk_bytes, SECRETKEYBYTES), LAMBDA my_sk :
             AndThen(from_base58(split[1]), LAMBDA vk_bytes :
             AndThen(from_slice(vk_bytes, PUBLICKEYBYTES), LAMBDA vk :
             AndThen(from_slice(nonce, BOX_NONCEBYTES), LAMBDA n :
             CryptoType_crypto_box_open(my_sk, vk, doc, n))))))

crypto_box_seal(their_vk, doc, eseed) ==
    LET split == split_verkey(their_vk)
    IN  IF split[2] \notin DOMAIN crypto_types THEN Err("UnknownCrypto")
        ELSE AndThen(from_base58(split[1]), LAMBDA vk_bytes :
             AndThen(from_slice(vk_bytes, PUBLICKEYBYTES), LAMBDA vk :
             CryptoType_crypto_box_seal(vk, doc, eseed)))

\* crypto_box_seal_open that hands the suite the signing key's public half decoded
\* from the whole signkey text, where the verkey belongs
crypto_box_seal_open_swapping_keys(my_key, doc) ==
    LET split == split_verkey(my_key.verkey)
    IN  IF split[2] \notin DOMAIN crypto_types THEN Err("UnknownCrypto")
        ELSE AndThen(from_base58(my_key.signkey), LAMBDA vk_bytes :
             AndThen(from_slice(vk_bytes, PUBLICKEYBYTES), LAMBDA my_vk :
             AndThen(from_base58(split[1]), LAMBDA sk_bytes :
             AndThen(from_slice(sk_bytes, SECRETKEYBYTES), LAMBDA my_sk :
             CryptoType_crypto_box_seal_open(my_vk, my_sk, doc)))))

crypto_box_seal_open(my_key, doc) ==
    LET split == split_verkey(my_key.verkey)
    IN  IF split[2] \notin DOMAIN crypto_types THEN Err("UnknownCrypto")
        ELSE AndThen(from_base58(split[1]), LAMBDA vk_bytes :
             AndThen(from_slice(vk_bytes, PUBLICKEYBYTES), LAMBDA my_vk :
             AndThen(from_base58(my_key.signkey), LAMBDA sk_bytes :
             AndThen(from_slice(sk_bytes, SECRETKEYBYTES), LAMBDA my_sk :
             CryptoType_crypto_box_seal_open(my_vk, my_sk, doc)))))

\* encrypt_plaintext that returns the iv and the tag in each other's place
encrypt_plaintext_swapping_iv_tag(plaintext, aad, cek, nonce) ==
    LET enc == encrypt_detached(plaintext, aad, cek, nonce)
    IN  [ciphertext |-> base64_encode_urlsafe(enc.ciphertext),
         iv         |-> base64_encode_urlsafe(enc.tag),
         tag        |-> base64_encode_urlsafe(enc.iv)]

\* the result is the triple (ciphertext, iv, tag), each base64url text
encrypt_plaintext(plaintext, aad, cek, nonce) ==
    LET enc == encrypt_detached(plaintext, aad, cek, nonce)
    IN  [ciphertext |-> base64_encode_urlsafe(enc.ciphertext),
         iv         |-> base64_encode_urlsafe(enc.iv),
         tag        |-> base64_encode_urlsafe(enc.tag)]

\* decrypt_ciphertext that passes no additional data to the decryption
decrypt_ciphertext_without_aad(ciphertext, aad, iv, tag, cek) ==
    LET ciphertext_as_vec == base64_decode_urlsafe(ciphertext)
    IN  IF ~ciphertext_as_vec.ok THEN Err("InvalidStructure")
        ELSE LET nonce_as_vec == base64_decode_urlsafe(iv)
             IN  IF ~nonce_as_vec.ok THEN Err("InvalidStructure")
                 ELSE LET nonce == from_slice(nonce_as_vec.val, AEAD_NONCEBYTES)
                      IN  IF ~nonce.ok THEN Err("InvalidStructure")
                          ELSE LET tag_as_vec == base64_decode_urlsafe(tag)
                               IN  IF ~tag_as_vec.ok THEN Err("InvalidStructure")
                                   ELSE LET tg == from_slice(tag_as_vec.val, AEAD_TAGBYTES)
                                        IN  IF ~tg.ok THEN Err("InvalidStructure")
                                            ELSE LET plaintext_bytes ==
                                                         decrypt_detached(ciphertext_as_vec.val, cek,
                                                                          nonce.val, tg.val, <<>>)
                                                 IN  IF ~plaintext_bytes.ok THEN Err("UnknownCrypto")
                                                     ELSE from_utf8(plaintext_bytes.val)

\* decrypt_ciphertext that reports a failed authentication as the failures before it
decrypt_ciphertext_one_error_kind(ciphertext, aad, iv, tag, cek) ==
    LET ciphertext_as_vec == base64_decode_urlsafe(ciphertext)
    IN  IF ~ciphertext_as_vec.ok THEN Err("InvalidStructure")
        ELSE LET nonce_as_vec == base64_decode_urlsafe(iv)
             IN  IF ~nonce_as_vec.ok THEN Err("InvalidStructure")
                 ELSE LET nonce == from_slice(nonce_as_vec.val, AEAD_NONCEBYTES)
                      IN  IF ~nonce.ok THEN Err("InvalidStructure")
                          ELSE LET tag_as_vec == base64_decode_urlsafe(tag)
                               IN  IF ~tag_as_vec.ok THEN Err("InvalidStructure")
                                   ELSE LET tg == from_slice(tag_as_vec.val, AEAD_TAGBYTES)
                                        IN  IF ~tg.ok THEN Err("InvalidStructure")
                                            ELSE LET plaintext_bytes ==
                                                         decrypt_detached(ciphertext_as_vec.val, cek,
                                                                          nonce.val, tg.val, aad)
                                                 IN  IF ~plaintext_bytes.ok THEN Err("InvalidStructure")
                                                     ELSE from_utf8(plaintext_bytes.val)

decrypt_ciphertext(ciphertext, aad, iv, tag, cek) ==
    LET ciphertext_as_vec == base64_decode_urlsafe(ciphertext)
    IN  IF ~ciphertext_as_vec.ok THEN Err("InvalidStructure")
        ELSE LET nonce_as_vec == base64_decode_urlsafe(iv)
             IN  IF ~nonce_as_vec.ok THEN Err("InvalidStructure")
                 ELSE LET nonce == from_slice(nonce_as_vec.val, AEAD_NONCEBYTES)
                      IN  IF ~nonce.ok THEN Err("InvalidStructure")
                          ELSE LET tag_as_vec == base64_decode_urlsafe(tag)
                               IN  IF ~tag_as_vec.ok THEN Err("InvalidStructure")
                                   ELSE LET tg == from_slice(tag_as_vec.val, AEAD_TAGBYTES)
                                        IN  IF ~tg.ok THEN Err("InvalidStructure")
                                            ELSE LET plaintext_bytes ==
                                                         decrypt_detached(ciphertext_as_vec.val, cek,
                                                                          nonce.val, tg.val, aad)
                                                 IN  IF ~plaintext_bytes.ok THEN Err("UnknownCrypto")
                                                     ELSE from_utf8(plaintext_bytes.val)

----------------------------------------------------------------------------
(* The state machine: a caller that invokes the service, may store the     *)
(* (Did, Key) pairs it gets, keeps the latest signature or ciphertext, and *)
(* feeds what it has, intact or altered, to later calls.                   *)

NoDraw == <<>>
Nothing == [kind |-> "none"]

\* the tasks that run operations of the one service concurrently
NumTasks == 2
Tasks == 1..NumTasks

\* a task with no operation in progress
Idle == [pc |-> "idle", call |-> <<>>, guards |-> 0, awaits |-> 0, out |-> <<>>]

Call(op, args, drawn, res) == [op |-> op, args |-> args, drawn |-> drawn, res |-> res]

Init ==
    /\ crypto_types = CryptoService_new
    /\ keys = {}
    /\ held = Nothing
    /\ last = Call("new", <<>>, NoDraw, Ok(<<>>))
    /\ lock = [readers |-> 0, writer |-> FALSE]
    /\ tasks = [t \in Tasks |-> Idle]
    /\ writer = "idle"

MyDidInfo(did, seed, cid, crypto_type, method_name) ==
    [did |-> did, seed |-> seed, cid |-> cid, crypto_type |-> crypto_type,
     method_name |-> method_name, ledger_type |-> None]

\* what key generation draws from the CSPRNG: nothing when a seed is given
DrawsFor(seed) == IF seed = None THEN RandomSeeds ELSE {NoDraw}

\* the same length, another last byte
Tamper(bytes) == [i \in 1..Len(bytes) |-> IF i = Len(bytes) THEN (bytes[i] + 1) % 256 ELSE bytes[i]]

MyKeys == {k.key : k \in keys}
MyVerkeys == {k.did.verkey : k \in keys}

CreateMyDid(my_did_info, rnd) ==
    /\ last' = Call("create_my_did", [my_did_info |-> my_did_info], rnd,
                    create_my_did(my_did_info, rnd))
    /\ UNCHANGED <<crypto_types, keys, held, lock, tasks, writer>>

\* the caller (the wallet) stores the pair it was just given
StoreMyDid ==
    /\ last.op = "create_my_did" /\ last.res.ok
    /\ last.res.val \notin keys
    /\ Cardinality(keys) < MaxKeys
    /\ keys' = keys \cup {last.res.val}
    /\ UNCHANGED <<crypto_types, held, last, lock, tasks, writer>>

Sign(my_key, doc) ==
    \E res \in {sign(my_key, doc)} :
        /\ last' = Call("sign", [my_key |-> my_key, doc |-> doc], NoDraw, res)
        /\ held' = IF res.ok
                   THEN [kind |-> "signature", my_key |-> my_key, doc |-> doc, out |-> res.val]
                   ELSE held
        /\ UNCHANGED <<crypto_types, keys, lock, tasks, writer>>

Verify(their_vk, msg, signature) ==
    /\ last' = Call("verify", [their_vk |-> their_vk, msg |-> msg, signature |-> signature],
                    NoDraw, verify(their_vk, msg, signature))
    /\ UNCHANGED <<crypto_types, keys, held, lock, tasks, writer>>

\* the signatures the caller can present: the one it holds, an altered one of the
\* same length, a truncated one, a longer one
SignatureInputs ==
    IF held.kind = "signature"
    THEN {held.out, Tamper(held.out), Take(held.out, 20), held.out \o <<0>>}
    ELSE {}

\* the messages it can present with them: the signed one and another
MsgInputs == IF held.kind = "signature" THEN {held.doc, held.doc \o <<104>>} ELSE {}

\* the verkeys the caller can present: its own, a well-formed foreign one, a
\* 16-byte DID, a 64-byte signing key, text that is not base58
VerkeyInputs ==
    MyVerkeys \cup {VERKEY_Annx, DID_8wZc, INVALID_BASE58} \cup {k.signkey : k \in MyKeys}

SeedlessInfo == MyDidInfo(None, None, None, None, None)
SeededInfo == MyDidInfo(None, Some(SEED_A), None, None, None)

NextSign ==
    \/ \E info \in {SeedlessInfo, SeededInfo} : \E rnd \in DrawsFor(info.seed) :
           CreateMyDid(info, rnd)
    \/ StoreMyDid
    \/ \E my_key \in MyKeys, doc \in Msgs : Sign(my_key, doc)
    \/ \E their_vk \in VerkeyInputs, msg \in MsgInputs, signature \in SignatureInputs :
           Verify(their_vk, msg, signature)

SpecSign == Init /\ [][NextSign]_vars

----------------------------------------------------------------------------
(* Authenticated boxes between two key pairs. *)

CryptoBox(my_key, their_vk, doc, nonce) ==
    \E res \in {crypto_box(my_key, their_vk, doc, nonce)} :
        /\ last' = Call("crypto_box", [my_key |-> my_key, their_vk |-> their_vk, doc |-> doc],
                        nonce, res)
        /\ held' = IF res.ok
                   THEN [kind |-> "box", my_key |-> my_key, their_vk |-> their_vk,
                         doc |-> doc, out |-> res.val[1], nonce |-> res.val[2]]
                   ELSE held
        /\ UNCHANGED <<crypto_types, keys, lock, tasks, writer>>

CryptoBoxOpen(my_key, their_vk, doc, nonce) ==
    /\ last' = Call("crypto_box_open",
                    [my_key |-> my_key, their_vk |-> their_vk, doc |-> doc, nonce |-> nonce],
                    NoDraw, crypto_box_open(my_key, their_vk, doc, nonce))
    /\ UNCHANGED <<crypto_types, keys, held, lock, tasks, writer>>

\* the boxes the caller can present: the one it holds, an altered one
BoxInputs == IF held.kind = "box" THEN {held.out, Tamper(held.out)} ELSE {}

\* the nonces it can present with them: the one returned, a truncated one
NonceInputs == IF held.kind = "box" THEN {held.nonce, Take(held.nonce, 12)} ELSE {}

NextBox ==
    \/ \E rnd \in RandomSeeds : CreateMyDid(SeedlessInfo, rnd)
    \/ StoreMyDid
    \/ \E my_key \in MyKeys, their_vk \in MyVerkeys, doc \in Msgs, nonce \in BoxNonces :
           CryptoBox(my_key, their_vk, doc, nonce)
    \/ \E my_key \in MyKeys, their_vk \in MyVerkeys, doc \in BoxInputs, nonce \in NonceInputs :
           CryptoBoxOpen(my_key, their_vk, doc, nonce)

SpecBox == Init /\ [][NextBox]_vars

----------------------------------------------------------------------------
(* Sealed boxes for one key pair. *)

CryptoBoxSeal(their_vk, doc, eseed) ==
    \E res \in {crypto_box_seal(their_vk, doc, eseed)} :
        /\ last' = Call("crypto_box_seal", [their_vk |-> their_vk, doc |-> doc], eseed, res)
        /\ held' = IF res.ok
                   THEN [kind |-> "seal", their_vk |-> their_vk, doc |-> doc, out |-> res.val]
                   ELSE held
        /\ UNCHANGED <<crypto_types, keys, lock, tasks, writer>>

CryptoBoxSealOpen(my_key, doc) ==
    /\ last' = Call("crypto_box_seal_open", [my_key |-> my_key, doc |-> doc], NoDraw,
                    crypto_box_seal_open(my_key, doc))
    /\ UNCHANGED <<crypto_types, keys, held, lock, tasks, writer>>

\* the sealed boxes the caller can present: the one it holds, an altered one, one
\* cut short of the ephemeral key and the authenticator
SealInputs ==
    IF held.kind = "seal" THEN {held.out, Tamper(held.out), Take(held.out, 40)} ELSE {}

NextSeal ==
    \/ \E rnd \in RandomSeeds : CreateMyDid(SeedlessInfo, rnd)
    \/ StoreMyDid
    \/ \E their_vk \in MyVerkeys \cup {VERKEY_Annx}, doc \in Msgs, eseed \in EphemeralSeeds :
           CryptoBoxSeal(their_vk, doc, eseed)
    \/ \E my_key \in MyKeys, doc \in SealInputs : CryptoBoxSealOpen(my_key, doc)

SpecSeal == Init /\ [][NextSeal]_vars

----------------------------------------------------------------------------
(* Authenticated encryption of a plaintext under a content-encryption key. *)

\* the additional authenticated data: none, and a short text
Aads == {<<>>, S(<<"a","a","d">>)}

\* text that no base64 alphabet decodes
NOT_BASE64 == S(<<"b","a","d","!">>)

EncryptPlaintext(plaintext, aad, cek, nonce) ==
    \E res \in {encrypt_plaintext(plaintext, aad, cek, nonce)} :
        /\ last' = Call("encrypt_plaintext", [plaintext |-> plaintext, aad |-> aad, cek |-> cek],
                        nonce, Ok(res))
        /\ held' = [kind |-> "aead", plaintext |-> plaintext, aad |-> aad, cek |-> cek,
                    ciphertext |-> res.ciphertext, iv |-> res.iv, tag |-> res.tag]
        /\ UNCHANGED <<crypto_types, keys, lock, tasks, writer>>

DecryptCiphertext(in) ==
    /\ last' = Call("decrypt_ciphertext", in, NoDraw,
                    decrypt_ciphertext(in.ciphertext, in.aad, in.iv, in.tag, in.cek))
    /\ UNCHANGED <<crypto_types, keys, held, lock, tasks, writer>>

\* what encrypt_plaintext was given and returned, as decrypt_ciphertext takes it
Intact ==
    [ciphertext |-> held.ciphertext, aad |-> held.aad, iv |-> held.iv, tag |-> held.tag,
     cek |-> held.cek]

\* the encoding of other bytes of the same length (of one byte for no bytes)
Reencoded(text) ==
    LET bytes == base64_decode_urlsafe(text).val
    IN  base64_encode_urlsafe(IF bytes = <<>> THEN <<0>> ELSE Tamper(bytes))

\* the encoding of the first n bytes only
Shortened(text, n) == base64_encode_urlsafe(Take(base64_decode_urlsafe(text).val, n))

\* the text of a padded encoding with its spare bits set: the character before the
\* padding replaced by the next of the alphabet
SpareBitsSet(text) ==
    LET at == Len(text) - 2
    IN  [text EXCEPT ![at] = BASE64_URL_SAFE[IndexOf(BASE64_URL_SAFE, text[at], 1) + 1]]

\* inputs that fail before decryption: text that does not decode, an iv or a tag
\* of another length
Malformed ==
    {[Intact EXCEPT !.ciphertext = NOT_BASE64],
     [Intact EXCEPT !.iv = NOT_BASE64],
     [Intact EXCEPT !.iv = Shortened(held.iv, 8)],
     [Intact EXCEPT !.tag = NOT_BASE64],
     [Intact EXCEPT !.tag = SpareBitsSet(held.tag)],
     [Intact EXCEPT !.tag = Shortened(held.tag, 12)]}

\* well-formed inputs with one field that is not the one of the encryption
Altered ==
    {[Intact EXCEPT !.ciphertext = Reencoded(held.ciphertext)],
     [Intact EXCEPT !.iv = Reencoded(held.iv)],
     [Intact EXCEPT !.tag = Reencoded(held.tag)],
     [Intact EXCEPT !.aad = held.aad \o S(<<"x">>)],
     [Intact EXCEPT !.cek = CHOOSE k \in AeadKeys : k # held.cek]}

\* the same with another key or other additional data as well
AlsoWrong(in) ==
    {[in EXCEPT !.cek = CHOOSE k \in AeadKeys : k # held.cek],
     [in EXCEPT !.aad = held.aad \o S(<<"x">>)]}

DecryptInputs ==
    IF held.kind = "aead"
    THEN {Intact} \cup Altered \cup Malformed \cup UNION {AlsoWrong(in) : in \in Malformed}
    ELSE {}

NextAead ==
    \/ \E plaintext \in Msgs, aad \in Aads, cek \in AeadKeys, nonce \in AeadNonces :
           EncryptPlaintext(plaintext, aad, cek, nonce)
    \/ \E in \in DecryptInputs : DecryptCiphertext(in)

SpecAead == Init /\ [][NextAead]_vars

----------------------------------------------------------------------------
(* DID creation over the whole of MyDidInfo. *)

METHOD_SOV == S(<<"s","o","v">>)

\* the DID of a body: did:<method>:<body> with a method, the body alone without
Qualified(body, method_name) ==
    IF method_name = None THEN body
    ELSE S(<<"d","i","d">>) \o <<Colon>> \o method_name[1] \o <<Colon>> \o body

\* every MyDidInfo over: no did, a did, a did that is not base58; no seed, two
\* seeds; every cid; no suite, the default suite, an unknown one; no method, a method
MyDidInfos ==
    {MyDidInfo(did, seed, cid, crypto_type, method_name) :
        did \in {None, Some(DID_8wZc), Some(INVALID_BASE58)},
        seed \in {None, Some(SEED_A), Some(SEED_TRUSTEE)},
        cid \in {None, Some(TRUE), Some(FALSE)},
        crypto_type \in {None, Some(DEFAULT_CRYPTO_TYPE), Some(UNKNOWN_CRYPTO_TYPE)},
        method_name \in {None, Some(METHOD_SOV)}}

NextDid ==
    \E info \in MyDidInfos : \E rnd \in DrawsFor(info.seed) : CreateMyDid(info, rnd)

SpecDid == Init /\ [][NextDid]_vars

----------------------------------------------------------------------------
(* Key generation and seeds: create_key, create_my_did and convert_seed    *)
(* over seeds in their three forms, a caller that remembers what a call    *)
(* returned and calls again.                                               *)

\* hex::encode with the digits of alphabet
to_hex(bytes, alphabet) ==
    [i \in 1..(2 * Len(bytes)) |->
        IF i % 2 = 1 THEN alphabet[(bytes[(i + 1) \div 2] \div 16) + 1]
        ELSE alphabet[(bytes[i \div 2] % 16) + 1]]

\* base64::encode
base64_encode(bytes) == base64_encode_with(BASE64_STANDARD, bytes)

SEED_A_BASE64 == base64_encode(SEED_A)
SEED_A_HEX == to_hex(SEED_A, HEX_LOWER)
\* "seed" (signus.rs, indy_create_my_did_works_for_invalid_seed)
INVALID_SEED == S(<<"s","e","e","d">>)
\* 32 characters, the last one '='
SEED_ENDING_EQ == [i \in 1..31 |-> Ord["a"]] \o <<EqSign>>

\* seed strings of every form, accepted and not
SeedStrings ==
    {SEED_A, SEED_TRUSTEE, SEED_ENDING_EQ, Fill(SEEDBYTES, 17),
     SEED_A_BASE64, base64_encode(SEED_TRUSTEE), base64_encode(SEED_ENDING_EQ),
     SEED_A_HEX, to_hex(Fill(SEEDBYTES, 17), HEX_LOWER), to_hex(Fill(SEEDBYTES, 17), HEX_UPPER),
     INVALID_SEED, <<>>, Take(SEED_A, 31), SEED_A \o <<Ord["a"]>>,
     base64_encode(Take(SEED_A, 31)), base64_encode(Take(SEED_A, 16)),
     base64_encode(SEED_A \o <<Ord["a"]>>), NOT_BASE64 \o <<EqSign>>,
     Take(SEED_A_HEX, 62), [i \in 1..64 |-> Ord["g"]], Take(SEED_A_HEX, 63) \o <<EqSign>>}

KeyInfo(seed, crypto_type) == [seed |-> seed, crypto_type |-> crypto_type]

KeyInfos ==
    {KeyInfo(seed, crypto_type) :
        seed \in {None, Some(SEED_A), Some(SEED_A_HEX), Some(SEED_TRUSTEE), Some(INVALID_SEED)},
        crypto_type \in {None, Some(DEFAULT_CRYPTO_TYPE), Some(UNKNOWN_CRYPTO_TYPE)}}

KeygenDidInfos ==
    {MyDidInfo(None, seed, cid, crypto_type, None) :
        seed \in {None, Some(SEED_A), Some(SEED_A_BASE64), Some(INVALID_SEED)},
        cid \in {None, Some(TRUE)},
        crypto_type \in {None, Some(UNKNOWN_CRYPTO_TYPE)}}
    \cup {MyDidInfo(None, seed, None, Some(DEFAULT_CRYPTO_TYPE), None) : seed \in {None, Some(SEED_A)}}

\* create_key that registers the suite it was asked for and did not find
CreateKey_registering_suite(key_info, rnd) ==
    /\ last' = Call("create_key", [key_info |-> key_info], rnd, create_key(key_info, rnd))
    /\ crypto_types' = IF key_info.crypto_type # None
                          /\ key_info.crypto_type[1] \notin DOMAIN crypto_types
                       THEN crypto_types @@ (key_info.crypto_type[1] :> "ED25519CryptoType")
                       ELSE crypto_types
    /\ UNCHANGED <<keys, held, lock, tasks, writer>>

\* the CSPRNG is there to draw from whether the call has a seed or not
CreateKey(key_info, rnd) ==
    /\ last' = Call("create_key", [key_info |-> key_info], rnd, create_key(key_info, rnd))
    /\ UNCHANGED <<crypto_types, keys, held, lock, tasks, writer>>

ConvertSeed(seed) ==
    /\ last' = Call("convert_seed", [seed |-> seed], NoDraw, convert_seed(seed))
    /\ UNCHANGED <<crypto_types, keys, held, lock, tasks, writer>>

\* the caller keeps the call that has just succeeded to compare later ones with it
Remember ==
    /\ last.op \in {"create_key", "create_my_did", "convert_seed"}
    /\ last.res.ok
    /\ held' = [kind |-> "call", call |-> last]
    /\ held' # held
    /\ UNCHANGED <<crypto_types, keys, last, lock, tasks, writer>>

NextKeygen ==
    \/ \E key_info \in KeyInfos : \E rnd \in RandomSeeds : CreateKey(key_info, rnd)
    \/ \E info \in KeygenDidInfos : \E rnd \in RandomSeeds : CreateMyDid(info, rnd)
    \/ Remember

SpecKeygen == Init /\ [][NextKeygen]_vars

\* key generation with seed strings that convert_seed does not take, and one it takes
SeedKeyInfos ==
    {KeyInfo(Some(str), None) :
        str \in {INVALID_SEED, Take(SEED_A, 31), base64_encode(Take(SEED_A, 16)), SEED_TRUSTEE}}

NextSeed ==
    \/ \E seed \in {None} \cup {Some(str) : str \in SeedStrings} : ConvertSeed(seed)
    \/ \E key_info \in SeedKeyInfos : \E rnd \in RandomSeeds : CreateKey(key_info, rnd)
    \/ Remember

SpecSeed == Init /\ [][NextSeed]_vars

----------------------------------------------------------------------------
(* Their DIDs: create_their_did on a DID and an optional verkey, full or   *)
(* abbreviated, tagged or not.                                             *)

TheirDidInfo(did, verkey) == [did |-> did, verkey |-> verkey]

Tagged(verkey, crypto_type) == verkey \o <<Colon>> \o crypto_type
Abbreviated(tail) == <<Tilde>> \o tail

\* DIDs of 16 and of 32 bytes, bare and qualified, and texts that are no base58
TheirDids ==
    {DID_8wZc, DID_NcYx, DID_CnED, VERKEY_5L2H,
     Qualified(DID_8wZc, Some(METHOD_SOV)), Qualified(DID_CnED, Some(METHOD_SOV)),
     INVALID_BASE58, Abbreviated(DID_NcYx)}

\* no verkey; full and abbreviated verkeys without a tag, with the default suite's
\* and with an unknown one; verkeys of other lengths and verkeys that are no base58
TheirVerkeys ==
    {None} \cup
    {Some(verkey) : verkey \in
        {VERKEY_5L2H, DID_CnED, Abbreviated(DID_NcYx), Abbreviated(DID_8wZc),
         Tagged(VERKEY_5L2H, DEFAULT_CRYPTO_TYPE),
         Tagged(Abbreviated(DID_NcYx), DEFAULT_CRYPTO_TYPE),
         Tagged(VERKEY_5L2H, UNKNOWN_CRYPTO_TYPE),
         Tagged(Abbreviated(DID_NcYx), UNKNOWN_CRYPTO_TYPE),
         INVALID_BASE58, Abbreviated(INVALID_BASE58),
         Tagged(INVALID_BASE58, UNKNOWN_CRYPTO_TYPE),
         DID_8wZc, Abbreviated(DID_CnED), <<Tilde>>}}

CreateTheirDid(their_did_info) ==
    /\ last' = Call("create_their_did", [their_did_info |-> their_did_info], NoDraw,
                    create_their_did(their_did_info))
    /\ UNCHANGED <<crypto_types, keys, held, lock, tasks, writer>>

NextTheirDid ==
    \E did \in TheirDids : \E verkey \in TheirVerkeys :
        CreateTheirDid(TheirDidInfo(did, verkey))

SpecTheirDid == Init /\ [][NextTheirDid]_vars

----------------------------------------------------------------------------
(* Suite tags and malformed keys: the operations that read the suite from  *)
(* a verkey, on verkeys with no tag, the default suite's and an unknown    *)
(* one, with well-formed and malformed key texts.                          *)

\* the key pair of the seed "aaaaaaaaaaaaaaaaaaaaaaaaaaaaaaaa" as its two texts
VK_A == to_base58(sign_keypair(SEED_A).vk)
SK_A == to_base58(sign_keypair(SEED_A).sk)

KeyOfTexts(verkey, signkey) == [verkey |-> verkey, signkey |-> signkey]

\* verkeys: well-formed, no base58, base58 of 16 bytes; untagged and tagged
TagVerkeys ==
    {VK_A, Tagged(VK_A, DEFAULT_CRYPTO_TYPE), Tagged(VK_A, UNKNOWN_CRYPTO_TYPE),
     INVALID_BASE58, Tagged(INVALID_BASE58, UNKNOWN_CRYPTO_TYPE),
     Tagged(DID_8wZc, UNKNOWN_CRYPTO_TYPE)}

\* Keys: each verkey with the signing key, with a 32-byte value and with text that
\* is no base58 in its place; a foreign verkey with the signing key
TagKeys ==
    {KeyOfTexts(verkey, signkey) :
        verkey \in TagVerkeys, signkey \in {SK_A, VK_A, INVALID_BASE58}}
    \cup {KeyOfTexts(VERKEY_Annx, SK_A)}

\* the signature of the signing key on 'h', and a cut one
TagSignatures ==
    {sign_detached(sign_keypair(SEED_A).sk, <<104>>),
     Take(sign_detached(sign_keypair(SEED_A).sk, <<104>>), 20)}

\* sealed boxes to present: the one held, and bytes that are none
TagSealInputs == (IF held.kind = "seal" THEN {held.out} ELSE {}) \cup {<<1, 2, 3>>}

TagTheirInfos ==
    {TheirDidInfo(did, Some(verkey)) :
        did \in {DID_8wZc, DID_CnED, INVALID_BASE58},
        verkey \in TagVerkeys \cup {Tagged(Abbreviated(DID_NcYx), UNKNOWN_CRYPTO_TYPE),
                                    Tagged(Abbreviated(INVALID_BASE58), UNKNOWN_CRYPTO_TYPE)}}

\* a TheirDidInfo that names a suite in a crypto_type field of its own
TheirDidInfoOfSuite(did, verkey, crypto_type) ==
    [did |-> did, verkey |-> verkey, crypto_type |-> crypto_type]

TagTheirInfosOfSuite ==
    {TheirDidInfoOfSuite(did, verkey, Some(crypto_type)) :
        did \in {DID_8wZc, DID_CnED},
        verkey \in {None, Some(VK_A)},
        crypto_type \in {DEFAULT_CRYPTO_TYPE, UNKNOWN_CRYPTO_TYPE}}

ValidateKey(vk) ==
    /\ last' = Call("validate_key", [vk |-> vk], NoDraw, validate_key(vk))
    /\ UNCHANGED <<crypto_types, keys, held, lock, tasks, writer>>

NextTag ==
    \/ \E my_key \in TagKeys : Sign(my_key, <<104>>)
    \/ \E their_vk \in TagVerkeys, signature \in TagSignatures :
           Verify(their_vk, <<104>>, signature)
    \/ \E their_vk \in TagVerkeys, eseed \in EphemeralSeeds :
           CryptoBoxSeal(their_vk, <<104>>, eseed)
    \/ \E my_key \in TagKeys, doc \in TagSealInputs : CryptoBoxSealOpen(my_key, doc)
    \/ \E vk \in TagVerkeys \cup {Abbreviated(v) : v \in TagVerkeys} : ValidateKey(vk)
    \/ \E info \in TagTheirInfos \cup TagTheirInfosOfSuite : CreateTheirDid(info)

SpecTag == Init /\ [][NextTag]_vars

----------------------------------------------------------------------------
(* Boxes between keys of the same and of different suites. *)

MismatchKeys ==
    {KeyOfTexts(VK_A, SK_A), KeyOfTexts(Tagged(VK_A, DEFAULT_CRYPTO_TYPE), SK_A),
     KeyOfTexts(Tagged(VK_A, UNKNOWN_CRYPTO_TYPE), SK_A),
     KeyOfTexts(Tagged(VK_A, UNKNOWN_CRYPTO_TYPE), INVALID_BASE58),
     KeyOfTexts(VK_A, INVALID_BASE58), KeyOfTexts(INVALID_BASE58, INVALID_BASE58)}

\* boxes and nonces to present: the ones held, and bytes that are none
MismatchBoxInputs == (IF held.kind = "box" THEN {held.out} ELSE {}) \cup {<<1, 2, 3>>}
MismatchNonceInputs == (IF held.kind = "box" THEN {held.nonce} ELSE {}) \cup {<<1, 2, 3>>}

NextMismatch ==
    \/ \E my_key \in MismatchKeys, their_vk \in TagVerkeys, nonce \in BoxNonces :
           CryptoBox(my_key, their_vk, <<104>>, nonce)
    \/ \E my_key \in MismatchKeys, their_vk \in TagVerkeys,
          doc \in MismatchBoxInputs, nonce \in MismatchNonceInputs :
           CryptoBoxOpen(my_key, their_vk, doc, nonce)

SpecMismatch == Init /\ [][NextMismatch]_vars

----------------------------------------------------------------------------
(* The whole service: every operation, in any order, on one service.       *)

ValidateDid(did) ==
    /\ last' = Call("validate_did", [did |-> did], NoDraw, validate_did(did))
    /\ UNCHANGED <<crypto_types, keys, held, lock, tasks, writer>>

\* the caller keeps the last call, failed or not, to compare later ones with it
Keep ==
    /\ last.op # "new"
    /\ held.kind = "call"
          => (held.call.op # last.op \/ held.call.res.ok # last.res.ok \/ held.call # last)
    /\ held' = [kind |-> "call", call |-> last]
    /\ UNCHANGED <<crypto_types, keys, last, lock, tasks, writer>>

KEY_A == KeyOfTexts(VK_A, SK_A)

ServiceKeyInfos == {KeyInfo(Some(SEED_A), None), KeyInfo(Some(SEED_A), Some(UNKNOWN_CRYPTO_TYPE))}
ServiceVerkeys == {VK_A, Tagged(VK_A, UNKNOWN_CRYPTO_TYPE)}
ServiceKeys == {KeyOfTexts(verkey, SK_A) : verkey \in ServiceVerkeys}
ServiceTheirInfos == {TheirDidInfo(DID_CnED, Some(verkey)) : verkey \in ServiceVerkeys}
ServiceAeadInputs ==
    IF held.kind = "aead" THEN {Intact, [Intact EXCEPT !.tag = NOT_BASE64]} ELSE {}

NextService ==
    \/ \E key_info \in ServiceKeyInfos : CreateKey(key_info, NoDraw)
    \/ \E info \in {SeededInfo} : CreateMyDid(info, NoDraw)
    \/ \E seed \in {Some(SEED_A)} : ConvertSeed(seed)
    \/ \E vk \in ServiceVerkeys : ValidateKey(vk)
    \/ \E did \in {INVALID_BASE58} : ValidateDid(did)
    \/ \E info \in ServiceTheirInfos : CreateTheirDid(info)
    \/ \E my_key \in ServiceKeys, doc \in {<<104>>} : Sign(my_key, doc)
    \/ \E their_vk \in ServiceVerkeys, msg \in {<<104>>}, signature \in TagSignatures :
           Verify(their_vk, msg, signature)
    \/ \E my_key \in {KEY_A}, their_vk \in ServiceVerkeys, doc \in {<<104>>},
          nonce \in {Fill(BOX_NONCEBYTES, 33)} :
           CryptoBox(my_key, their_vk, doc, nonce)
    \/ \E my_key \in {KEY_A}, their_vk \in {VK_A}, doc \in MismatchBoxInputs,
          nonce \in MismatchNonceInputs :
           CryptoBoxOpen(my_key, their_vk, doc, nonce)
    \/ \E their_vk \in ServiceVerkeys, doc \in {<<104>>}, eseed \in {Fill(SEEDBYTES, 5)} :
           CryptoBoxSeal(their_vk, doc, eseed)
    \/ \E my_key \in {KEY_A}, doc \in TagSealInputs : CryptoBoxSealOpen(my_key, doc)
    \/ \E plaintext \in {<<104>>}, aad \in {<<>>}, cek \in {Fill(AEAD_KEYBYTES, 9)},
          nonce \in {Fill(AEAD_NONCEBYTES, 61)} :
           EncryptPlaintext(plaintext, aad, cek, nonce)
    \/ \E in \in ServiceAeadInputs : DecryptCiphertext(in)
    \/ Keep

SpecService == Init /\ [][NextService]_vars

----------------------------------------------------------------------------
(* Operations in progress at the same time.  An async operation runs up to *)
(* self.crypto_types.read().await, takes the read guard there or suspends  *)
(* while a writer holds the lock, reads the registry and computes under    *)
(* the guard, and drops the guard when it returns.  The caller may drop    *)
(* the future of an operation that has not passed its await.  One more     *)
(* task extends the registry under the write lock.                         *)

\* the suite that the extension registers
NEW_CRYPTO_TYPE == UNKNOWN_CRYPTO_TYPE

\* the registry after the extension
Extended == CryptoService_new @@ (NEW_CRYPTO_TYPE :> "CryptoType")

\* what a reader without the guard could find while HashMap::insert moves the
\* entries: any part of the table
Torn == {[name \in found |-> Extended[name]] : found \in SUBSET DOMAIN Extended}

Invocation(op, args) == [op |-> op, args |-> args]

\* the operations that the tasks run
Invocations ==
    {Invocation("validate_key", [vk |-> vk]) : vk \in {VK_A, Tagged(VK_A, NEW_CRYPTO_TYPE)}}
    \cup {Invocation("create_their_did",
                     [their_did_info |-> TheirDidInfo(DID_CnED, Some(Tagged(VK_A, NEW_CRYPTO_TYPE)))]),
          Invocation("sign", [my_key |-> KeyOfTexts(VK_A, INVALID_BASE58), doc |-> <<104>>]),
          Invocation("crypto_box", [my_key |-> KEY_A, their_vk |-> Tagged(VK_A, NEW_CRYPTO_TYPE),
                                    doc |-> <<104>>, nonce |-> Fill(BOX_NONCEBYTES, 33)]),
          Invocation("convert_seed", [seed |-> Some(SEED_A)])}

\* the operation reaches self.crypto_types.read().await: the async operations
\* other than a crypto_box between two suites, which returns before it
ReachesRead(call) ==
    CASE call.op \in {"validate_key", "create_their_did", "sign"} -> TRUE
      [] call.op = "crypto_box" ->
             verkey_get_cryptoname(call.args.my_key.verkey) = split_verkey(call.args.their_vk)[2]
      [] OTHER -> FALSE

\* what the operation returns with the registry as it is
Outcome(call) ==
    CASE call.op = "validate_key"     -> validate_key(call.args.vk)
      [] call.op = "create_their_did" -> create_their_did(call.args.their_did_info)
      [] call.op = "sign"             -> sign(call.args.my_key, call.args.doc)
      [] call.op = "crypto_box"       -> crypto_box(call.args.my_key, call.args.their_vk,
                                                    call.args.doc, call.args.nonce)
      [] call.op = "convert_seed"     -> convert_seed(call.args.seed)

\* the caller invokes an operation: it runs up to its await, or to its end when
\* there is no await on its way
Invoke(t, call) ==
    /\ tasks[t].pc = "idle"
    /\ tasks' = [tasks EXCEPT ![t] =
                    IF ReachesRead(call)
                    THEN [Idle EXCEPT !.pc = "read", !.call = Some(call)]
                    ELSE [Idle EXCEPT !.pc = "returned", !.call = Some(call),
                                      !.out = Some(Outcome(call))]]
    /\ UNCHANGED <<crypto_types, keys, held, last, lock, writer>>

\* a lock that admits one reader at a time
Read_one_at_a_time(t) ==
    /\ tasks[t].pc = "read"
    /\ IF ~lock.writer /\ lock.readers = 0
       THEN /\ lock' = [lock EXCEPT !.readers = @ + 1]
            /\ tasks' = [tasks EXCEPT ![t].pc = "guard", ![t].guards = @ + 1, ![t].awaits = @ + 1]
       ELSE /\ tasks' = [tasks EXCEPT ![t].pc = "suspended", ![t].awaits = @ + 1]
            /\ UNCHANGED lock
    /\ UNCHANGED <<crypto_types, keys, held, last, writer>>

\* a lock that hands out a read guard while the writer holds it
Read_despite_writer(t) ==
    /\ tasks[t].pc = "read"
    /\ lock' = [lock EXCEPT !.readers = @ + 1]
    /\ tasks' = [tasks EXCEPT ![t].pc = "guard", ![t].guards = @ + 1, ![t].awaits = @ + 1]
    /\ UNCHANGED <<crypto_types, keys, held, last, writer>>

\* crypto_types.read().await: the guard at once without a writer, whatever the
\* readers; suspended with one
Read(t) ==
    /\ tasks[t].pc = "read"
    /\ IF ~lock.writer
       THEN /\ lock' = [lock EXCEPT !.readers = @ + 1]
            /\ tasks' = [tasks EXCEPT ![t].pc = "guard", ![t].guards = @ + 1, ![t].awaits = @ + 1]
       ELSE /\ tasks' = [tasks EXCEPT ![t].pc = "suspended", ![t].awaits = @ + 1]
            /\ UNCHANGED lock
    /\ UNCHANGED <<crypto_types, keys, held, last, writer>>

\* the writer has released the lock: the suspended operation is woken with the guard
Wake(t) ==
    /\ tasks[t].pc = "suspended"
    /\ ~lock.writer
    /\ lock' = [lock EXCEPT !.readers = @ + 1]
    /\ tasks' = [tasks EXCEPT ![t].pc = "guard", ![t].guards = @ + 1]
    /\ UNCHANGED <<crypto_types, keys, held, last, writer>>

\* an operation that keeps its guard when it returns an error
Return_keeping_guard_on_error(t) ==
    /\ tasks[t].pc = "guard"
    /\ \E outcome \in {Outcome(tasks[t].call[1])} :
           /\ tasks' = [tasks EXCEPT ![t].pc = "returned",
                                     ![t].guards = IF outcome.ok THEN @ - 1 ELSE @,
                                     ![t].out = Some(outcome)]
           /\ lock' = [lock EXCEPT !.readers = IF outcome.ok THEN @ - 1 ELSE @]
    /\ UNCHANGED <<crypto_types, keys, held, last, writer>>

\* the rest of the operation, under the guard: the lookup and what follows it;
\* the guard is dropped where the function ends, on Ok and on Err
Return(t) ==
    /\ tasks[t].pc = "guard"
    /\ \E outcome \in {Outcome(tasks[t].call[1])} :
           tasks' = [tasks EXCEPT ![t].pc = "returned", ![t].guards = @ - 1,
                                  ![t].out = Some(outcome)]
    /\ lock' = [lock EXCEPT !.readers = @ - 1]
    /\ UNCHANGED <<crypto_types, keys, held, last, writer>>

\* the caller drops the future at its await: it holds no guard yet
Cancel(t) ==
    /\ tasks[t].pc \in {"read", "suspended"}
    /\ tasks' = [tasks EXCEPT ![t].pc = "cancelled"]
    /\ UNCHANGED <<crypto_types, keys, held, last, lock, writer>>

\* the caller takes the result
Collect(t) ==
    /\ tasks[t].pc \in {"returned", "cancelled"}
    /\ tasks' = [tasks EXCEPT ![t] = Idle]
    /\ UNCHANGED <<crypto_types, keys, held, last, lock, writer>>

\* the extension: crypto_types.write() once the readers are gone, the insert, the
\* release
WriterLock ==
    /\ writer = "idle"
    /\ NEW_CRYPTO_TYPE \notin DOMAIN crypto_types
    /\ ~lock.writer /\ lock.readers = 0
    /\ lock' = [lock EXCEPT !.writer = TRUE]
    /\ writer' = "locked"
    /\ UNCHANGED <<crypto_types, keys, held, last, tasks>>

WriterBeginInsert ==
    /\ writer = "locked"
    /\ crypto_types' \in Torn
    /\ writer' = "inserting"
    /\ UNCHANGED <<keys, held, last, lock, tasks>>

WriterEndInsert ==
    /\ writer = "inserting"
    /\ crypto_types' = Extended
    /\ writer' = "inserted"
    /\ UNCHANGED <<keys, held, last, lock, tasks>>

WriterUnlock ==
    /\ writer = "inserted"
    /\ lock' = [lock EXCEPT !.writer = FALSE]
    /\ writer' = "idle"
    /\ UNCHANGED <<crypto_types, keys, held, last, tasks>>

NextTasks ==
    \/ \E t \in Tasks, call \in Invocations : Invoke(t, call)
    \/ \E t \in Tasks : Read(t)
    \/ \E t \in Tasks : Wake(t)
    \/ \E t \in Tasks : Return(t)
    \/ \E t \in Tasks : Cancel(t)
    \/ \E t \in Tasks : Collect(t)
    \/ WriterLock
    \/ WriterBeginInsert
    \/ WriterEndInsert
    \/ WriterUnlock

SpecTasks == Init /\ [][NextTasks]_vars

\* the executor polls every task that can run, and wakes the suspended ones when
\* the lock is released; the writer finishes what it began.  Invoking, dropping
\* a future and collecting a result are up to the caller.
Scheduling ==
    /\ \A t \in Tasks : WF_vars(Read(t)) /\ WF_vars(Wake(t)) /\ WF_vars(Return(t))
    /\ WF_vars(WriterBeginInsert) /\ WF_vars(WriterEndInsert) /\ WF_vars(WriterUnlock)

\* create_their_did has no await of its own: it suspends where its call of
\* validate_key does, so the scheduled tasks run the other operations
ScheduledInvocations == {call \in Invocations : call.op # "create_their_did"}

NextScheduled ==
    \/ \E t \in Tasks, call \in ScheduledInvocations : Invoke(t, call)
    \/ \E t \in Tasks : Read(t)
    \/ \E t \in Tasks : Wake(t)
    \/ \E t \in Tasks : Return(t)
    \/ \E t \in Tasks : Cancel(t)
    \/ \E t \in Tasks : Collect(t)
    \/ WriterLock
    \/ WriterBeginInsert
    \/ WriterEndInsert
    \/ WriterUnlock

SpecScheduled == Init /\ [][NextScheduled]_vars /\ Scheduling

----------------------------------------------------------------------------
(* Sign and verify. *)

\* the key pair of a verify call's verkey is the one that made the held signature
SignerVerkey(their_vk) ==
    \E k \in keys : k.key = held.my_key /\ k.did.verkey = their_vk

\* verify's verkey names a registered suite and is base58 of 32 bytes
WellFormedVerkey(their_vk) ==
    /\ split_verkey(their_vk)[2] \in DOMAIN crypto_types
    /\ from_base58(split_verkey(their_vk)[1]).ok
    /\ Len(from_base58(split_verkey(their_vk)[1]).val) = PUBLICKEYBYTES

\* C1: for a (Did, Key) pair returned by create_my_did, sign(Key, m) yields a
\* signature and verify(Did.verkey, m, that signature) returns Ok(true)
C1_SignThenVerify ==
    /\ (last.op = "sign" /\ last.args.my_key \in MyKeys) => last.res.ok
    /\ (/\ last.op = "verify"
        /\ held.kind = "signature"
        /\ SignerVerkey(last.args.their_vk)
        /\ last.args.msg = held.doc
        /\ last.args.signature = held.out)
       => (last.res.ok /\ last.res.val = TRUE)

C1_Witness ==
    /\ last.op = "verify"
    /\ held.kind = "signature"
    /\ SignerVerkey(last.args.their_vk)
    /\ last.args.msg = held.doc
    /\ last.args.signature = held.out
    /\ last.res.ok /\ last.res.val = TRUE

\* C2: with a well-formed verkey and a 64-byte signature that sign produced,
\* verify returns Ok(false), not an error, when the verkey is another key's or
\* the message is another message
C2_VerifyFalseNotError ==
    (/\ last.op = "verify"
     /\ held.kind = "signature"
     /\ last.args.signature = held.out
     /\ WellFormedVerkey(last.args.their_vk)
     /\ \/ from_base58(split_verkey(last.args.their_vk)[1])
              # from_base58(split_verkey(held.my_key.verkey)[1])
        \/ last.args.msg # held.doc)
    => (last.res.ok /\ last.res.val = FALSE)

C2_Witness ==
    /\ last.op = "verify"
    /\ held.kind = "signature"
    /\ last.args.signature = held.out
    /\ last.args.their_vk \in MyVerkeys
    /\ ~SignerVerkey(last.args.their_vk)
    /\ last.args.msg = held.doc
    /\ last.res.ok /\ last.res.val = FALSE

\* C3: with a registered suite, verify fails with InvalidStructure, and returns no
\* boolean, when the signature is not 64 bytes long or the verkey is not base58 of
\* exactly 32 bytes
C3_VerifyInvalidStructure ==
    (/\ last.op = "verify"
     /\ split_verkey(last.args.their_vk)[2] \in DOMAIN crypto_types
     /\ \/ Len(last.args.signature) # SIGNATUREBYTES
        \/ ~WellFormedVerkey(last.args.their_vk))
    => (~last.res.ok /\ last.res.kind = "InvalidStructure")

C3_Witness ==
    /\ last.op = "verify"
    /\ SignerVerkey(last.args.their_vk)
    /\ last.args.msg = held.doc
    /\ Len(last.args.signature) < SIGNATUREBYTES
    /\ ~last.res.ok /\ last.res.kind = "InvalidStructure"

----------------------------------------------------------------------------
(* Boxes. *)

\* the held box was made with pair A's Key for pair B's verkey, and the call opens
\* it with B's Key and A's verkey
OpensHeldBox ==
    /\ last.op = "crypto_box_open"
    /\ held.kind = "box"
    /\ \E A \in keys, B \in keys :
          /\ held.my_key = A.key /\ held.their_vk = B.did.verkey
          /\ last.args.my_key = B.key /\ last.args.their_vk = A.did.verkey
    /\ last.args.doc = held.out
    /\ last.args.nonce = held.nonce

\* C4: for pairs A and B returned by create_my_did, crypto_box(A.key, B.verkey, m)
\* yields a box and a nonce, and crypto_box_open(B.key, A.verkey, box, nonce)
\* returns m
C4_BoxThenOpen ==
    /\ (/\ last.op = "crypto_box"
        /\ last.args.my_key \in MyKeys
        /\ last.args.their_vk \in MyVerkeys) => last.res.ok
    /\ OpensHeldBox => (last.res.ok /\ last.res.val = held.doc)

\* two different pairs, and a message that is not empty
C4_Witness ==
    /\ OpensHeldBox
    /\ held.my_key # last.args.my_key
    /\ held.doc # <<>>
    /\ last.res.ok /\ last.res.val = held.doc

----------------------------------------------------------------------------
(* Sealed boxes. *)

\* the held sealed box was made for pair B's verkey, and the call opens it with
\* B's Key
OpensHeldSeal ==
    /\ last.op = "crypto_box_seal_open"
    /\ held.kind = "seal"
    /\ \E B \in keys : held.their_vk = B.did.verkey /\ last.args.my_key = B.key
    /\ last.args.doc = held.out

\* C5: for a pair B returned by create_my_did, crypto_box_seal(B.verkey, m) yields
\* a sealed box and crypto_box_seal_open(B.key, that box) returns m
C5_SealThenOpen ==
    /\ (last.op = "crypto_box_seal" /\ last.args.their_vk \in MyVerkeys) => last.res.ok
    /\ OpensHeldSeal => (last.res.ok /\ last.res.val = held.doc)

C5_Witness ==
    /\ OpensHeldSeal
    /\ held.doc # <<>>
    /\ last.res.ok /\ last.res.val = held.doc

----------------------------------------------------------------------------
(* Authenticated encryption. *)

\* the call decrypts what the latest encrypt_plaintext returned, with its aad and key
DecryptsIntact == last.op = "decrypt_ciphertext" /\ held.kind = "aead" /\ last.args = Intact

\* C6 as stated: for every plaintext byte sequence encrypt_plaintext accepts,
\* decrypt_ciphertext of its output with the same aad and key returns the plaintext
C6_EveryPlaintextDecrypts ==
    DecryptsIntact => (last.res.ok /\ last.res.val = held.plaintext)

\* C6 amended: for every plaintext that is well-formed UTF-8 (the empty one
\* included), every aad and every key, decrypt_ciphertext of the output of
\* encrypt_plaintext with the same aad and key returns the plaintext
C6_Utf8PlaintextDecrypts ==
    (DecryptsIntact /\ is_utf8(held.plaintext, 1))
    => (last.res.ok /\ last.res.val = held.plaintext)

\* a two-byte character under additional data
C6_Witness ==
    /\ DecryptsIntact
    /\ held.plaintext = <<195, 169>>
    /\ held.aad # <<>>
    /\ last.res.ok /\ last.res.val = held.plaintext

\* C7: decrypt_ciphertext returns an error, never a plaintext, when the ciphertext,
\* the iv, the tag, the aad or the key is not the one of the encryption
C7_AlteredInputFails ==
    (last.op = "decrypt_ciphertext" /\ held.kind = "aead" /\ last.args # Intact)
    => ~last.res.ok

\* only the additional data differ, and the plaintext would be readable
C7_Witness ==
    /\ last.op = "decrypt_ciphertext" /\ held.kind = "aead"
    /\ last.args = [Intact EXCEPT !.aad = held.aad \o S(<<"x">>)]
    /\ is_utf8(held.plaintext, 1)
    /\ ~last.res.ok

\* the ciphertext, iv and tag decode, the iv to 12 bytes and the tag to 16
WellFormed(in) ==
    /\ base64_decode_urlsafe(in.ciphertext).ok
    /\ base64_decode_urlsafe(in.iv).ok
    /\ Len(base64_decode_urlsafe(in.iv).val) = AEAD_NONCEBYTES
    /\ base64_decode_urlsafe(in.tag).ok
    /\ Len(base64_decode_urlsafe(in.tag).val) = AEAD_TAGBYTES

\* C8: decrypt_ciphertext fails with InvalidStructure on text that does not decode,
\* an iv that is not 12 bytes or a tag that is not 16, whatever the key and the aad;
\* with UnknownCrypto when well-formed inputs do not authenticate; with
\* InvalidStructure when the authenticated plaintext is not UTF-8
C8_FailureKinds ==
    (last.op = "decrypt_ciphertext" /\ held.kind = "aead") =>
        /\ ~WellFormed(last.args)
              => (~last.res.ok /\ last.res.kind = "InvalidStructure")
        /\ (WellFormed(last.args) /\ last.args # Intact)
              => (~last.res.ok /\ last.res.kind = "UnknownCrypto")
        /\ (last.args = Intact /\ ~is_utf8(held.plaintext, 1))
              => (~last.res.ok /\ last.res.kind = "InvalidStructure")

\* a tag that does not decode, presented with another key
C8_Witness ==
    /\ last.op = "decrypt_ciphertext" /\ held.kind = "aead"
    /\ ~base64_decode_urlsafe(last.args.tag).ok
    /\ last.args.cek # held.cek
    /\ ~last.res.ok /\ last.res.kind = "InvalidStructure"

----------------------------------------------------------------------------
(* DID creation. *)

\* the public key of the pair the suite makes from the call's seed, or from the
\* CSPRNG's draw without one
GeneratedPk(call) ==
    sign_keypair(IF call.args.my_did_info.seed = None THEN call.drawn
                 ELSE convert_seed(call.args.my_did_info.seed).val[1]).vk

\* C9: without a did in MyDidInfo, the verkey is base58 of the 32 bytes of the
\* generated public key, and the DID body is base58 of the same 32 bytes when cid
\* is true (the DID then equals the verkey), of the first 16 bytes otherwise
C9_DidDerivedFromPk ==
    (/\ last.op = "create_my_did"
     /\ last.args.my_did_info.did = None
     /\ last.res.ok)
    => LET info == last.args.my_did_info
           pk   == GeneratedPk(last)
           did  == last.res.val.did
       IN  /\ Len(pk) = PUBLICKEYBYTES
           /\ did.verkey = to_base58(pk)
           /\ last.res.val.key.verkey = did.verkey
           /\ info.cid = Some(TRUE) => did.did = Qualified(did.verkey, info.method_name)
           /\ info.cid # Some(TRUE)
                 => did.did = Qualified(to_base58(Take(pk, 16)), info.method_name)

\* cid is false, and the DID decodes to 16 bytes where the verkey decodes to 32
C9_Witness ==
    /\ last.op = "create_my_did"
    /\ last.args.my_did_info.did = None
    /\ last.args.my_did_info.cid = Some(FALSE)
    /\ last.args.my_did_info.method_name = None
    /\ last.res.ok
    /\ Len(from_base58(last.res.val.did.did).val) = 16
    /\ Len(from_base58(last.res.val.did.verkey).val) = PUBLICKEYBYTES

\* C10: with a did in MyDidInfo, the Did returned carries that did, whatever cid
\* and the seed are, and the verkey is the one of the generated public key, the
\* same the call yields without the did
C10_SuppliedDidVerbatim ==
    (/\ last.op = "create_my_did"
     /\ last.args.my_did_info.did # None
     /\ last.res.ok)
    => LET info == last.args.my_did_info
       IN  /\ last.res.val.did.did = info.did[1]
           /\ last.res.val.did.verkey = to_base58(GeneratedPk(last))
           /\ last.res.val.did.verkey
                 = create_my_did([info EXCEPT !.did = None], last.drawn).val.did.verkey

\* a did together with cid = true and a seed
C10_Witness ==
    /\ last.op = "create_my_did"
    /\ last.args.my_did_info.did = Some(DID_8wZc)
    /\ last.args.my_did_info.cid = Some(TRUE)
    /\ last.args.my_did_info.seed = Some(SEED_A)
    /\ last.res.ok
    /\ last.res.val.did.did = DID_8wZc

(* Key and DID creation: rejected inputs, seeds. *)

\* C11: create_my_did with a did in MyDidInfo that is not base58 fails with
\* InvalidStructure and returns no Did and no Key, the suite being registered and
\* the seed one that convert_seed accepts
C11_InvalidDidRejected ==
    (/\ last.op = "create_my_did"
     /\ last.args.my_did_info.did # None
     /\ ~from_base58(last.args.my_did_info.did[1]).ok
     /\ last.args.my_did_info.crypto_type # Some(UNKNOWN_CRYPTO_TYPE)
     /\ convert_seed(last.args.my_did_info.seed).ok)
    => (~last.res.ok /\ last.res.kind = "InvalidStructure")

\* the seed and the suite a key generation was asked for, the Key it returned
SeedOf(call) ==
    IF call.op = "create_key" THEN call.args.key_info.seed ELSE call.args.my_did_info.seed

SuiteOf(call) ==
    LET crypto_type == IF call.op = "create_key" THEN call.args.key_info.crypto_type
                       ELSE call.args.my_did_info.crypto_type
    IN  IF crypto_type = None THEN DEFAULT_CRYPTO_TYPE ELSE crypto_type[1]

KeyOf(call) == IF call.op = "create_key" THEN call.res.val ELSE call.res.val.key

IsKeygen(call) == call.op \in {"create_key", "create_my_did"}

\* C12: two key generations (create_key or create_my_did, in either order) with
\* the same seed and suite return the same verkey and signkey whatever the CSPRNG
\* would have drawn, and two create_my_did with the same cid and method the same
\* DID; the same seed is the same string or another accepted form of its bytes
C12_SeedDeterminesKey ==
    (/\ held.kind = "call"
     /\ IsKeygen(held.call) /\ IsKeygen(last)
     /\ held.call.res.ok /\ last.res.ok
     /\ SeedOf(last) # None /\ SeedOf(held.call) # None
     /\ convert_seed(SeedOf(last)) = convert_seed(SeedOf(held.call))
     /\ SuiteOf(last) = SuiteOf(held.call))
    => /\ KeyOf(last) = KeyOf(held.call)
       /\ (/\ last.op = "create_my_did" /\ held.call.op = "create_my_did"
           /\ last.args.my_did_info.cid = held.call.args.my_did_info.cid
           /\ last.args.my_did_info.method_name = held.call.args.my_did_info.method_name)
          => last.res.val.did = held.call.res.val.did

\* create_key (what a key replacement calls) after a create_my_did with the same
\* seed, the CSPRNG standing elsewhere
C12_Witness ==
    /\ held.kind = "call"
    /\ held.call.op = "create_my_did" /\ last.op = "create_key"
    /\ held.call.res.ok /\ last.res.ok
    /\ SeedOf(held.call) = Some(SEED_A) /\ SeedOf(last) = Some(SEED_A)
    /\ held.call.drawn # last.drawn
    /\ last.res.val.verkey = held.call.res.val.did.verkey

\* C13: create_key and create_my_did fail with UnknownCrypto when crypto_type
\* names a suite that is not registered, whatever the seed is, an invalid one
\* included
C13_UnknownCryptoBeforeSeed ==
    (IsKeygen(last) /\ SuiteOf(last) \notin DOMAIN crypto_types)
    => (~last.res.ok /\ last.res.kind = "UnknownCrypto")

\* an unknown suite together with a seed that convert_seed rejects
C13_Witness ==
    /\ last.op = "create_my_did"
    /\ last.args.my_did_info.crypto_type = Some(UNKNOWN_CRYPTO_TYPE)
    /\ last.args.my_did_info.seed = Some(INVALID_SEED)
    /\ ~convert_seed(Some(INVALID_SEED)).ok
    /\ last.res = Err("UnknownCrypto")

\* the three forms of a seed string
IsRawSeed(str) == Len(str) = SEEDBYTES
IsBase64Seed(str) ==
    /\ str # <<>> /\ str[Len(str)] = EqSign
    /\ base64_decode(str).ok
    /\ Len(base64_decode(str).val) = SEEDBYTES
IsHexSeed(str) ==
    /\ Len(str) = 2 * SEEDBYTES
    /\ \A i \in 1..Len(str) : str[i] \in {HEX_LOWER[k] : k \in 1..16} \cup {HEX_UPPER[k] : k \in 1..16}

\* C14: convert_seed fails with InvalidStructure for a seed string of none of the
\* three forms, and so does create_key with a registered suite; an absent seed
\* yields Ok(None)
C14_OtherSeedsRejected ==
    /\ (last.op = "convert_seed" /\ last.args.seed = None) => last.res = Ok(None)
    /\ \A str \in SeedStrings :
          (/\ \/ last.op = "convert_seed" /\ last.args.seed = Some(str)
              \/ /\ last.op = "create_key" /\ last.args.key_info.seed = Some(str)
                 /\ SuiteOf(last) \in DOMAIN crypto_types
           /\ ~IsRawSeed(str) /\ ~IsBase64Seed(str) /\ ~IsHexSeed(str))
          => (~last.res.ok /\ last.res.kind = "InvalidStructure")

\* a base64 seed that decodes to 16 bytes
C14_Witness ==
    /\ last.op = "convert_seed"
    /\ last.args.seed = Some(base64_encode(Take(SEED_A, 16)))
    /\ base64_decode(last.args.seed[1]) = Ok(Take(SEED_A, 16))
    /\ last.res = Err("InvalidStructure")

\* a 32-byte seed string normalizes to its own bytes
Idempotent ==
    (last.op = "convert_seed" /\ last.args.seed # None /\ IsRawSeed(last.args.seed[1]))
    => last.res = Ok(last.args.seed)

\* two convert_seed calls that succeeded on two different seed strings
TwoSeeds ==
    /\ held.kind = "call"
    /\ held.call.op = "convert_seed" /\ last.op = "convert_seed"
    /\ held.call.res.ok /\ last.res.ok
    /\ held.call.args.seed # None /\ last.args.seed # None
    /\ held.call.args.seed # last.args.seed

\* C15 as stated: convert_seed is idempotent on 32-byte seed strings, and two
\* different accepted seed strings, raw, base64 or hex, never normalize to the
\* same seed
C15_InjectiveAcrossForms ==
    /\ Idempotent
    /\ TwoSeeds => held.call.res # last.res

\* C15: convert_seed is idempotent on 32-byte seed strings, whatever the last
\* character, and two different 32-byte seed strings never normalize to the same
\* seed
C15_InjectiveOnRawSeeds ==
    /\ Idempotent
    /\ (TwoSeeds /\ IsRawSeed(held.call.args.seed[1]) /\ IsRawSeed(last.args.seed[1]))
       => held.call.res # last.res

\* a 32-byte seed string ending in '=' after another 32-byte seed string
C15_Witness ==
    /\ TwoSeeds
    /\ last.args.seed = Some(SEED_ENDING_EQ)
    /\ IsRawSeed(held.call.args.seed[1])
    /\ last.res = Ok(Some(SEED_ENDING_EQ))

----------------------------------------------------------------------------
(* Their DIDs. *)

\* the last call is create_their_did on info
TheirInfo == last.args.their_did_info

\* did is body, bare or qualified by a method
HasBody(did, body) == did = body \/ did = Qualified(body, Some(METHOD_SOV))

TheirBodies ==
    {DID_8wZc, DID_NcYx, DID_CnED, VERKEY_5L2H, INVALID_BASE58, Abbreviated(DID_NcYx)}

\* a verkey text without its ':suite' suffix, and the suffix with its colon
Untagged(verkey) ==
    IF IndexOf(verkey, Colon, 1) = 0 THEN verkey ELSE Take(verkey, IndexOf(verkey, Colon, 1) - 1)
TagOf(verkey) ==
    IF IndexOf(verkey, Colon, 1) = 0 THEN <<>> ELSE Drop(verkey, IndexOf(verkey, Colon, 1) - 1)

StartsWithTilde(verkey) == verkey # <<>> /\ verkey[1] = Tilde

\* the suite tag is absent or names a registered suite
RegisteredTag(verkey) ==
    TagOf(verkey) = <<>> \/ Drop(TagOf(verkey), 1) \in DOMAIN crypto_types

\* C16: whenever create_their_did succeeds for a TheirDidInfo without verkey, the
\* TheirDid returned has the input did unchanged and the unqualified DID body as
\* its verkey
C16_DidBodyIsVerkey ==
    (last.op = "create_their_did" /\ TheirInfo.verkey = None /\ last.res.ok)
    => /\ last.res.val.did = TheirInfo.did
       /\ \A body \in TheirBodies :
             HasBody(TheirInfo.did, body) => last.res.val.verkey = body

\* a qualified DID of 32 bytes: the verkey is its body, the did keeps its prefix
C16_Witness ==
    /\ last.op = "create_their_did"
    /\ TheirInfo = TheirDidInfo(Qualified(DID_CnED, Some(METHOD_SOV)), None)
    /\ last.res = Ok([did |-> Qualified(DID_CnED, Some(METHOD_SOV)), verkey |-> DID_CnED])

\* C17: create_their_did without verkey returns Ok for every DID whose body is
\* base58 of 16 or of 32 bytes
C17_DidAloneAccepted ==
    \A body \in TheirBodies :
        (/\ last.op = "create_their_did" /\ TheirInfo.verkey = None
         /\ HasBody(TheirInfo.did, body)
         /\ base58_decode(body).ok
         /\ Len(base58_decode(body).val) \in {16, PUBLICKEYBYTES})
        => last.res.ok

C19_VerkeyFullyExpanded ==
    (last.op = "create_their_did" /\ last.res.ok)
    => /\ ~StartsWithTilde(last.res.val.verkey)
       /\ (TheirInfo.verkey # None /\ ~StartsWithTilde(TheirInfo.verkey[1]))
             => last.res.val.verkey = TheirInfo.verkey[1]
       /\ TheirInfo.verkey # None
             => TagOf(last.res.val.verkey) = TagOf(TheirInfo.verkey[1])

\* the failures C20 names, for a verkey whose tag satisfies tagged: the verkey is
\* '~' and base58 of 16 bytes and the DID body is not base58 of 16 bytes; the
\* decoded DID body and the decoded tail do not total 32 bytes; the verkey, its
\* '~' and its tag aside, is not base58
MalformedVerkeyRejected(tagged(_)) ==
    \A body \in TheirBodies :
        LET verkey == TheirInfo.verkey[1]
            text   == IF StartsWithTilde(verkey) THEN Drop(Untagged(verkey), 1)
                      ELSE Untagged(verkey)
            head   == base58_decode(body)
            tail   == base58_decode(text)
        IN  (/\ last.op = "create_their_did" /\ TheirInfo.verkey # None
             /\ HasBody(TheirInfo.did, body)
             /\ tagged(verkey)
             /\ \/ /\ StartsWithTilde(verkey) /\ tail.ok /\ Len(tail.val) = 16
                   /\ ~(head.ok /\ Len(head.val) = 16)
                \/ /\ StartsWithTilde(verkey) /\ tail.ok /\ head.ok
                   /\ Len(head.val) + Len(tail.val) # PUBLICKEYBYTES
                \/ ~tail.ok)
            => (~last.res.ok /\ last.res.kind = "InvalidStructure")

AnyTag(verkey) == TRUE

\* C20 as stated: create_their_did fails with InvalidStructure when the verkey
\* is abbreviated and the DID body does not decode to 16 bytes, when the decoded
\* DID body and tail do not total 32 bytes, and when the verkey is not base58
C20_MalformedVerkeyInvalidStructure == MalformedVerkeyRejected(AnyTag)

\* C20: the same, for a verkey without a suite tag or with the tag of a registered
\* suite
C20_RegisteredSuiteInvalidStructure == MalformedVerkeyRejected(RegisteredTag)

\* an abbreviated verkey with a DID of 32 bytes
C20_Witness ==
    /\ last.op = "create_their_did"
    /\ TheirInfo = TheirDidInfo(DID_CnED, Some(Abbreviated(DID_NcYx)))
    /\ Len(base58_decode(DID_CnED).val) = PUBLICKEYBYTES
    /\ Len(base58_decode(DID_NcYx).val) = 16
    /\ last.res = Err("InvalidStructure")

----------------------------------------------------------------------------
(* Suite tags, suite mismatch and malformed signing keys. *)

\* the verkey an operation reads its suite from
TagSource(call) ==
    CASE call.op \in {"sign", "crypto_box_seal_open"} -> call.args.my_key.verkey
      [] call.op \in {"verify", "crypto_box_seal"}    -> call.args.their_vk
      [] call.op = "validate_key"                     -> call.args.vk
      [] call.op = "create_their_did"                 -> call.args.their_did_info.verkey[1]

ReadsTag(call) ==
    \/ call.op \in {"sign", "verify", "crypto_box_seal", "crypto_box_seal_open", "validate_key"}
    \/ call.op = "create_their_did" /\ call.args.their_did_info.verkey # None

\* the verkey carries the tag of a suite that is not registered
UnknownTag(verkey) == TagOf(verkey) # <<>> /\ ~RegisteredTag(verkey)

\* C21 as stated: sign, verify, crypto_box_seal, crypto_box_seal_open,
\* validate_key and create_their_did fail with UnknownCrypto when the tag of the
\* verkey names a suite that is not registered, whatever the key and signature
\* bytes are
C21_UnknownTagFirst ==
    (ReadsTag(last) /\ UnknownTag(TagSource(last)))
    => (~last.res.ok /\ last.res.kind = "UnknownCrypto")

\* C21: the same for sign, verify, crypto_box_seal, crypto_box_seal_open and
\* validate_key, and for create_their_did with a full verkey; create_their_did
\* with an abbreviated verkey fails with InvalidStructure when the DID body or
\* the tail is not base58, the expansion of the verkey coming before the lookup,
\* and with UnknownCrypto when they are base58 of 32 bytes in all
C21_UnknownTagBeforeDecoding ==
    (ReadsTag(last) /\ UnknownTag(TagSource(last)))
    => IF last.op = "create_their_did" /\ StartsWithTilde(TagSource(last))
       THEN LET head == base58_decode(to_unqualified(TheirInfo.did))
                tail == base58_decode(Drop(Untagged(TagSource(last)), 1))
            IN  /\ (~head.ok \/ ~tail.ok)
                      => (~last.res.ok /\ last.res.kind = "InvalidStructure")
                /\ (head.ok /\ tail.ok /\ Len(head.val) + Len(tail.val) = PUBLICKEYBYTES)
                      => (~last.res.ok /\ last.res.kind = "UnknownCrypto")
       ELSE (~last.res.ok /\ last.res.kind = "UnknownCrypto")

\* verify with an unknown tag on a verkey that is no base58 and a cut signature
C21_Witness ==
    /\ last.op = "verify"
    /\ last.args.their_vk = Tagged(INVALID_BASE58, UNKNOWN_CRYPTO_TYPE)
    /\ Len(last.args.signature) # SIGNATUREBYTES
    /\ ~base58_decode(INVALID_BASE58).ok
    /\ last.res = Err("UnknownCrypto")

\* C24: with a registered suite, sign fails with InvalidStructure when the
\* signkey is not base58 of 64 bytes, and signs with the signkey whatever the
\* verkey of the Key is, a foreign one or one that is no key included
C24_InvalidSignkey ==
    (last.op = "sign" /\ RegisteredTag(last.args.my_key.verkey))
    => LET decoded == base58_decode(last.args.my_key.signkey)
       IN  IF decoded.ok /\ Len(decoded.val) = SECRETKEYBYTES
           THEN last.res = Ok(sign_detached(decoded.val, last.args.doc))
           ELSE ~last.res.ok /\ last.res.kind = "InvalidStructure"

\* a signkey of 32 bytes (the verkey's text in its place)
C24_Witness ==
    /\ last.op = "sign"
    /\ last.args.my_key = KeyOfTexts(VK_A, VK_A)
    /\ Len(base58_decode(VK_A).val) = 32
    /\ last.res = Err("InvalidStructure")

\* C22: create_their_did on a TheirDidInfo whose crypto_type field names a suite
\* that is not registered fails with UnknownCrypto
C22_UnknownCryptoTypeField ==
    (/\ last.op = "create_their_did"
     /\ "crypto_type" \in DOMAIN TheirInfo
     /\ TheirInfo.crypto_type # None
     /\ TheirInfo.crypto_type[1] \notin DOMAIN crypto_types)
    => (~last.res.ok /\ last.res.kind = "UnknownCrypto")

\* the suite a verkey names: its tag, the default suite without one
SuiteName(verkey) ==
    IF TagOf(verkey) = <<>> THEN DEFAULT_CRYPTO_TYPE ELSE Drop(TagOf(verkey), 1)

IsBoxCall(call) == call.op \in {"crypto_box", "crypto_box_open"}

\* C23: crypto_box and crypto_box_open fail with UnknownCrypto whenever the suite
\* names of my_key.verkey and their_vk differ, whatever the keys, the nonce and
\* the ciphertext are; an untagged verkey and one tagged ':ed25519' name the same
\* suite, and crypto_box between two such keys returns a box
C23_SuiteMismatch ==
    /\ (IsBoxCall(last) /\ SuiteName(last.args.my_key.verkey) # SuiteName(last.args.their_vk))
          => last.res = Err("UnknownCrypto")
    /\ (/\ last.op = "crypto_box"
        /\ last.args.my_key = KeyOfTexts(VK_A, SK_A)
        /\ last.args.their_vk = Tagged(VK_A, DEFAULT_CRYPTO_TYPE))
          => last.res.ok

\* crypto_box_open between the default suite and an unknown one, the signing key
\* no base58, the nonce and the box no nonce and no box
C23_Witness ==
    /\ last.op = "crypto_box_open"
    /\ last.args.my_key = KeyOfTexts(VK_A, INVALID_BASE58)
    /\ last.args.their_vk = Tagged(VK_A, UNKNOWN_CRYPTO_TYPE)
    /\ last.args.nonce = <<1, 2, 3>>
    /\ last.res = Err("UnknownCrypto")

----------------------------------------------------------------------------
(* The verkey of a generated key and its suite suffix. *)

\* the suite a key generation was asked for, and the verkey of the Key it returned
RequestedSuite(call) ==
    LET info == IF call.op = "create_key" THEN call.args.key_info ELSE call.args.my_did_info
    IN  IF info.crypto_type = None THEN DEFAULT_CRYPTO_TYPE ELSE info.crypto_type[1]

GeneratedVerkey(call) ==
    IF call.op = "create_key" THEN call.res.val.verkey ELSE call.res.val.key.verkey

Generates(call) == call.op \in {"create_key", "create_my_did"} /\ call.res.ok

\* C25: in a result of create_my_did the Did's verkey is the Key's verkey, and the
\* verkey that create_key or create_my_did returns has a ':<suite>' suffix exactly
\* when the suite asked for is not the default: none with crypto_type absent or
\* "ed25519"
C25_VerkeySuffix ==
    /\ (last.op = "create_my_did" /\ last.res.ok)
          => last.res.val.did.verkey = last.res.val.key.verkey
    /\ Generates(last)
          => /\ (IndexOf(GeneratedVerkey(last), Colon, 1) # 0)
                    <=> (RequestedSuite(last) # DEFAULT_CRYPTO_TYPE)
             /\ RequestedSuite(last) # DEFAULT_CRYPTO_TYPE
                    => GeneratedVerkey(last)
                           = Tagged(Untagged(GeneratedVerkey(last)), RequestedSuite(last))

\* a Did and a Key made with crypto_type "ed25519", the same verkey in both and
\* no ':' in it
C25_Witness ==
    /\ last.op = "create_my_did" /\ last.res.ok
    /\ last.args.my_did_info.crypto_type = Some(DEFAULT_CRYPTO_TYPE)
    /\ last.res.val.did.verkey = last.res.val.key.verkey
    /\ IndexOf(last.res.val.key.verkey, Colon, 1) = 0

----------------------------------------------------------------------------
(* The service keeps no state of its own. *)

\* the operations that look a suite up, and the name they look up
LooksUp(call) ==
    \/ call.op \in {"create_key", "create_my_did", "crypto_box", "crypto_box_open"}
    \/ ReadsTag(call)

LookedUp(call) ==
    CASE call.op \in {"create_key", "create_my_did"}   -> RequestedSuite(call)
      [] call.op \in {"crypto_box", "crypto_box_open"} -> SuiteName(call.args.my_key.verkey)
      [] OTHER                                         -> SuiteName(TagSource(call))

\* C26: no operation changes the registry: after construction and after any
\* operations, failed or not, it maps exactly the name 'ed25519'; a lookup of the
\* default suite never misses, and a call returns what the same call returned
\* before whatever ran in between
C26_RegistryUnchanged ==
    /\ crypto_types = CryptoService_new
    /\ DOMAIN crypto_types = {DEFAULT_CRYPTO_TYPE}
    /\ (/\ last.op # "new"
        /\ LooksUp(last)
        /\ LookedUp(last) = DEFAULT_CRYPTO_TYPE
        /\ last.op \in {"crypto_box", "crypto_box_open"}
              => SuiteName(last.args.their_vk) = DEFAULT_CRYPTO_TYPE)
          => last.res # Err("UnknownCrypto")
    /\ (/\ held.kind = "call"
        /\ held.call.op = last.op
        /\ held.call.args = last.args
        /\ held.call.drawn = last.drawn)
          => last.res = held.call.res

\* a create_key that found no suite 'type', after a signature the caller kept: the
\* registry is the one of construction
C26_Witness ==
    /\ last.op = "create_key"
    /\ last.res = Err("UnknownCrypto")
    /\ held.kind = "call" /\ held.call.op = "sign" /\ held.call.res.ok
    /\ DOMAIN crypto_types = {DEFAULT_CRYPTO_TYPE}

----------------------------------------------------------------------------
(* Read guards of the operations in progress. *)

InProgress(t) == tasks[t].pc \in {"read", "suspended", "guard"}

\* C27: an operation holds at most one read guard, and holds it exactly between
\* taking it at the await and returning (create_their_did has the one of
\* validate_key); the readers of the lock are the guards held, so that a return,
\* with Ok or with an error, and a cancellation at the await leave none behind:
\* with no operation in progress the registry has no readers
C27_OneGuardReleased ==
    /\ \A t \in Tasks : tasks[t].guards = (IF tasks[t].pc = "guard" THEN 1 ELSE 0)
    /\ lock.readers = Cardinality({t \in Tasks : tasks[t].guards > 0})
    /\ (\A t \in Tasks : ~InProgress(t)) => lock.readers = 0

\* one operation has returned an error under its guard and the other was dropped
\* after it had suspended at the await: no reader is left
C27_Witness ==
    /\ tasks[1].pc = "returned" /\ tasks[1].awaits = 1 /\ ~tasks[1].out[1].ok
    /\ tasks[2].pc = "cancelled" /\ tasks[2].awaits = 1
    /\ tasks[2].call[1].op = "create_their_did"
    /\ lock.readers = 0

\* an operation suspends in this step
Suspends(t) == tasks[t].pc # "suspended" /\ tasks'[t].pc = "suspended"

\* C28: with the tasks and the writer scheduled fairly, every operation invoked
\* comes to its end, returned or dropped by its caller, however many run at the
\* same time; an operation awaits the lock at most once, and it suspends only in
\* a state in which the writer holds the lock, never because of other readers
C28_EveryOperationEnds ==
    /\ \A t \in Tasks : InProgress(t) ~> (tasks[t].pc \in {"returned", "cancelled"})
    /\ [](\A t \in Tasks : tasks[t].awaits <= 1)
    /\ [][\A t \in Tasks : Suspends(t) => (lock.writer /\ writer # "idle")]_vars

\* both tasks hold a guard at the same time, ...
C28_Witness ==
    /\ \A t \in Tasks : tasks[t].pc = "guard"
    /\ lock.readers = NumTasks

\* ... and an operation is suspended while the writer inserts
C28_Suspended ==
    /\ \E t \in Tasks : tasks[t].pc = "suspended"
    /\ writer = "inserting"

----------------------------------------------------------------------------
(* validate_key next to an extension of the registry. *)

\* what the suite answers for the key once it is found, whichever suite it is
SuiteValidation(vk) ==
    IF StartsWithTilde(Untagged(vk))
    THEN AndThen(from_base58(Drop(Untagged(vk), 1)), LAMBDA tail : Ok(<<>>))
    ELSE AndThen(from_base58(Untagged(vk)), LAMBDA decoded :
         AndThen(from_slice(decoded, PUBLICKEYBYTES), LAMBDA pk :
         CryptoType_validate_key(pk)))

ValidatedKey(t) ==
    /\ tasks[t].pc = "returned"
    /\ tasks[t].call[1].op = "validate_key"

\* C29: a validate_key that runs next to the extension answers by the registry
\* before it or by the registry after it: for a verkey of the suite being added
\* UnknownCrypto or what that suite answers, for a verkey of a suite registered
\* at construction what it answers without any extension
C29_OldOrNewRegistry ==
    \A t \in Tasks :
        ValidatedKey(t) =>
            IF SuiteName(tasks[t].call[1].args.vk) = NEW_CRYPTO_TYPE
            THEN tasks[t].out[1] \in {Err("UnknownCrypto"),
                                      SuiteValidation(tasks[t].call[1].args.vk)}
            ELSE /\ SuiteName(tasks[t].call[1].args.vk) \in DOMAIN CryptoService_new
                 /\ tasks[t].out[1] = SuiteValidation(tasks[t].call[1].args.vk)

\* the same verkey of the new suite validated on both sides of the extension: one
\* task has UnknownCrypto, the other the suite's answer
C29_Witness ==
    /\ NEW_CRYPTO_TYPE \in DOMAIN crypto_types
    /\ \E t \in Tasks, u \in Tasks :
           /\ ValidatedKey(t) /\ ValidatedKey(u)
           /\ tasks[t].call = tasks[u].call
           /\ SuiteName(tasks[t].call[1].args.vk) = NEW_CRYPTO_TYPE
           /\ tasks[t].out[1] = Err("UnknownCrypto")
           /\ tasks[u].out[1] = Ok(<<>>)

----------------------------------------------------------------------------
(* Trace records.  Each operation writes one record when it starts, with   *)
(* its arguments, and one when it ends, with its result; a record is taken *)
(* here for the byte strings that can be read in it.                       *)

\* the two builds: secret! gives the value itself under debug_assertions, "_"
\* without them
Builds == {"debug", "release"}

secret(shown, build) == IF build = "debug" THEN shown ELSE {S(<<"_">>)}

OptionShown(option) == {option[i] : i \in DOMAIN option}

\* {:?} of a Key, whose Debug is written elsewhere: the verkey, the signing key
\* being taken as redacted there
KeyShown(key) == {key.verkey}

\* what the records of the call show, for the operations that handle seeds,
\* signing keys and documents
Traced(call, build) ==
    CASE call.op = "create_key" ->
             secret(OptionShown(call.args.key_info.seed), build)
             \cup (IF call.res.ok THEN KeyShown(call.res.val) ELSE {})
      [] call.op = "create_my_did" ->
             secret(OptionShown(call.args.my_did_info.seed), build)
             \cup (IF call.res.ok
                   THEN KeyShown(call.res.val.key)
                        \cup {call.res.val.did.did, call.res.val.did.verkey}
                   ELSE {})
      [] call.op = "convert_seed" ->
             secret(OptionShown(call.args.seed), build)
             \cup secret(IF call.res.ok THEN OptionShown(call.res.val) ELSE {}, build)
      [] call.op = "sign" ->
             KeyShown(call.args.my_key) \cup {call.args.doc}
             \cup (IF call.res.ok THEN {call.res.val} ELSE {})
      [] call.op = "crypto_box" ->
             KeyShown(call.args.my_key) \cup {call.args.their_vk, call.args.doc}
             \cup (IF call.res.ok THEN {call.res.val[1], call.res.val[2]} ELSE {})
      [] call.op = "crypto_box_open" ->
             KeyShown(call.args.my_key)
             \cup {call.args.their_vk, call.args.doc, call.args.nonce}
             \cup (IF call.res.ok THEN {call.res.val} ELSE {})
      [] call.op = "crypto_box_seal" ->
             {call.args.their_vk, call.args.doc}
             \cup (IF call.res.ok THEN {call.res.val} ELSE {})
      [] call.op = "crypto_box_seal_open" ->
             KeyShown(call.args.my_key) \cup {call.args.doc}
             \cup (IF call.res.ok THEN {call.res.val} ELSE {})
      [] OTHER -> {}

\* the seed, the signing key and the plaintext that the call handles
Sensitive(call) ==
    CASE call.op = "create_key" ->
             OptionShown(call.args.key_info.seed)
             \cup (IF call.res.ok THEN {call.res.val.signkey} ELSE {})
      [] call.op = "create_my_did" ->
             OptionShown(call.args.my_did_info.seed)
             \cup (IF call.res.ok THEN {call.res.val.key.signkey} ELSE {})
      [] call.op = "convert_seed" ->
             OptionShown(call.args.seed)
             \cup (IF call.res.ok THEN OptionShown(call.res.val) ELSE {})
      [] call.op \in {"sign", "crypto_box"} ->
             {call.args.my_key.signkey, call.args.doc}
      [] call.op \in {"crypto_box_open", "crypto_box_seal_open"} ->
             {call.args.my_key.signkey} \cup (IF call.res.ok THEN {call.res.val} ELSE {})
      [] call.op = "crypto_box_seal" ->
             {call.args.doc}
      [] OTHER -> {}

\* C30: no trace record of sign, crypto_box, crypto_box_seal, their open
\* counterparts, create_key, create_my_did and convert_seed shows a seed, a
\* signing key or a plaintext, in either build
C30_TracesRedacted ==
    \A build \in Builds : Traced(last, build) \cap Sensitive(last) = {}

====
